---- MODULE Spec2Model ----
(***************************************************************************)
(* A model of the clox bytecode compiler, virtual machine, string interner *)
(* and hash table (src/c).  Operators keep the names of the C functions    *)
(* they are translated from.  C pointers into the heap are indices into    *)
(* the sequence `heap`; NULL is 0.  C arrays are 0-based, the sequences    *)
(* that model them are 1-based, so a[i] in C is a[i + 1] here.             *)
(***************************************************************************)
EXTENDS Integers, Sequences, FiniteSets, TLC

VARIABLES
    vm,       \* the global LoxVM: chunk, ip, stack, stacktop, objects, globals, strings
    heap,     \* the C heap: every block reallocate() handed out, live or freed
    out,      \* stdout: the values printed so far
    err,      \* stderr: the diagnostics written so far
    pc,       \* where the process is: "idle" (between calls), "run" (inside run_vm), "undefined"
    result,   \* what the last interpret_vm call returned
    hist,     \* history of the current session (what was called, what the last step did)
    tbl,      \* a LoxTable driven directly through table_set / table_delete / table_get
    amap,     \* history: the abstract map the calls on tbl describe
    last      \* history: the last call on tbl or on the interner, and what it returned

vars == <<vm, heap, out, err, pc, result, hist, tbl, amap, last>>

NULL == 0

(***************************************************************************)
(* Characters.  A C char is a one-character string here; Byte gives its    *)
(* code, which is what hash_string reads.                                  *)
(***************************************************************************)
Letters == <<"a", "b", "c", "d", "e", "f", "g", "h", "i", "j", "k", "l", "m",
             "n", "o", "p", "q", "r", "s", "t", "u", "v", "w", "x", "y", "z">>
Digits == <<"0", "1", "2", "3", "4", "5", "6", "7", "8", "9">>

\* The printable characters, in ASCII order from 32 (space) to 126; the
\* grave accent (96) cannot be written in a string and is spelled out.
Ascii == <<" ", "!", "\"", "#", "$", "%", "&", "'", "(", ")", "*", "+", ",", "-", ".", "/",
           "0", "1", "2", "3", "4", "5", "6", "7", "8", "9", ":", ";", "<", "=", ">", "?",
           "@", "A", "B", "C", "D", "E", "F", "G", "H", "I", "J", "K", "L", "M", "N", "O",
           "P", "Q", "R", "S", "T", "U", "V", "W", "X", "Y", "Z", "[", "\\", "]", "^", "_",
           "GRAVE", "a", "b", "c", "d", "e", "f", "g", "h", "i", "j", "k", "l", "m", "n", "o",
           "p", "q", "r", "s", "t", "u", "v", "w", "x", "y", "z", "{", "|", "}", "~">>

\* The terminator of a C string.
NUL == ""

\* The value of a char.
Byte(c) ==
    IF c = NUL THEN 0
    ELSE IF c = "\t" THEN 9
    ELSE IF c = "\n" THEN 10
    ELSE IF c = "\r" THEN 13
    ELSE 31 + (CHOOSE i \in 1..Len(Ascii) : Ascii[i] = c)

\* <ctype.h> in the "C" locale.
isalpha(c) == Byte(c) \in (65..90) \cup (97..122)
isdigit(c) == Byte(c) \in 48..57

(***************************************************************************)
(* value.h: the tagged union.  The field that holds the payload is named   *)
(* after the union member; nil carries none.                               *)
(***************************************************************************)
VAL_BOOL == "VAL_BOOL"
VAL_NIL == "VAL_NIL"
VAL_NUMBER == "VAL_NUMBER"
VAL_OBJECT == "VAL_OBJECT"

is_loxbool(v) == v.type = VAL_BOOL
is_loxnil(v) == v.type = VAL_NIL
is_loxnumber(v) == v.type = VAL_NUMBER
is_loxobject(v) == v.type = VAL_OBJECT

as_loxbool(v) == v.boolean
as_loxnumber(v) == v.number
as_loxobject(v) == v.object

make_loxbool(b) == [type |-> VAL_BOOL, boolean |-> b]
make_loxnil == [type |-> VAL_NIL]
make_loxnumber(n) == [type |-> VAL_NUMBER, number |-> n]
make_loxobject(o) == [type |-> VAL_OBJECT, object |-> o]

(***************************************************************************)
(* A double is modelled by the rational <<n, d>> (d > 0, lowest terms) it  *)
(* holds, or by one of the IEEE specials a division by zero produces.      *)
(***************************************************************************)
RECURSIVE Gcd(_, _)
Gcd(a, b) == IF b = 0 THEN a ELSE Gcd(b, a % b)

Abs(a) == IF a < 0 THEN -a ELSE a

Rat(n, d) ==
    LET g == Gcd(Abs(n), Abs(d))
        s == IF d < 0 THEN -1 ELSE 1
    IN  <<(s * n) \div g, (s * d) \div g>>

IsFinite(x) == x[2] > 0
NaN == <<0, 0>>
Inf(sign) == <<sign, 0>>

NumNeg(x) == <<-x[1], x[2]>>
NumAdd(x, y) ==
    IF IsFinite(x) /\ IsFinite(y) THEN Rat(x[1] * y[2] + y[1] * x[2], x[2] * y[2])
    ELSE IF x = NaN \/ y = NaN THEN NaN
    ELSE IF IsFinite(x) THEN y
    ELSE IF IsFinite(y) THEN x
    ELSE IF x = y THEN x ELSE NaN
NumSub(x, y) == NumAdd(x, NumNeg(y))
Sign(a) == IF a < 0 THEN -1 ELSE IF a > 0 THEN 1 ELSE 0
NumMul(x, y) ==
    IF IsFinite(x) /\ IsFinite(y) THEN Rat(x[1] * y[1], x[2] * y[2])
    ELSE IF x = NaN \/ y = NaN \/ x[1] = 0 \/ y[1] = 0 THEN NaN
    ELSE Inf(Sign(x[1]) * Sign(y[1]))
NumDiv(x, y) ==
    IF IsFinite(x) /\ IsFinite(y)
    THEN IF y[1] # 0 THEN Rat(x[1] * y[2], x[2] * y[1])
         ELSE IF x[1] = 0 THEN NaN ELSE Inf(Sign(x[1]))
    ELSE IF x = NaN \/ y = NaN THEN NaN
    ELSE IF IsFinite(y) THEN Inf(Sign(x[1]) * (IF y[1] < 0 THEN -1 ELSE 1))
    ELSE IF IsFinite(x) THEN <<0, 1>>
    ELSE NaN
NumLess(x, y) ==
    IF x = NaN \/ y = NaN THEN FALSE
    ELSE IF IsFinite(x) /\ IsFinite(y) THEN x[1] * y[2] < y[1] * x[2]
    ELSE IF IsFinite(x) THEN y[1] > 0
    ELSE IF IsFinite(y) THEN x[1] < 0
    ELSE x[1] < y[1]
NumGreater(x, y) == NumLess(y, x)
NumEq(x, y) == x # NaN /\ y # NaN /\ x = y

(***************************************************************************)
(* 32-bit unsigned arithmetic.  A uint32_t is the pair <<hi, lo>> of its   *)
(* 16-bit halves, so that no intermediate result leaves the range of a     *)
(* signed 32-bit integer.                                                  *)
(***************************************************************************)
RECURSIVE Xor(_, _)
Xor(a, b) ==
    IF a = 0 THEN b
    ELSE IF b = 0 THEN a
    ELSE (((a % 2) + (b % 2)) % 2) + 2 * Xor(a \div 2, b \div 2)

FNV_PRIME32 == 16777619
FNV_OFFSET32 == <<33052, 40389>>

U32Xor8(h, b) == <<h[1], Xor(h[2], b)>>
U32Mul(h, p) ==
    LET phi == p \div 65536
        plo == p % 65536
        low == h[2] * plo
    IN  <<(h[1] * plo + h[2] * phi + (low \div 65536)) % 65536, low % 65536>>
U32Mod(h, n) == (((h[1] % n) * (65536 % n)) + (h[2] % n)) % n

RECURSIVE hash_loop(_, _, _, _)
hash_loop(key, length, i, hash) ==
    IF i < length
    THEN hash_loop(key, length, i + 1, U32Mul(U32Xor8(hash, Byte(key[i + 1])), FNV_PRIME32))
    ELSE hash
hash_string(key, length) == hash_loop(key, length, 0, FNV_OFFSET32)

(***************************************************************************)
(* memory.h / memory.c: the heap.  A block keeps its place in `heap` when  *)
(* it is freed, with live = FALSE, so that a second free and a use after   *)
(* free can be seen.                                                       *)
(***************************************************************************)
grow_capacity(n) == IF n < 8 THEN 8 ELSE n * 2

allocate_chars(h, chars) ==
    Append(h, [kind |-> "char[]", live |-> TRUE, chars |-> chars, frees |-> 0])

free_block(h, ptr) ==
    [h EXCEPT ![ptr].live = FALSE, ![ptr].frees = @ + 1]

\* The characters of LoxString s.
StringChars(h, s) == h[h[s].buffer].chars

(***************************************************************************)
(* table.c.  A LoxTable is [count, capacity, entries]; entries is <<>>     *)
(* when the C pointer is NULL.  A pointer to an entry is its position      *)
(* 1..capacity in entries, and NULL is 0.  The operators that read         *)
(* key->hash take the heap as their first argument.                        *)
(***************************************************************************)
init_table == [count |-> 0, capacity |-> 0, entries |-> <<>>]

\* What find_entry "returns" when its for(;;) never reaches a return.
Hang == -1

\* find_entry_loop that takes a tombstone for the end of the probe sequence.
RECURSIVE find_entry_loop_stops_at_tombstone(_, _, _, _, _, _, _)
find_entry_loop_stops_at_tombstone(h, entries, capacity, key, index, tombstone, visited) ==
    LET entry == entries[index + 1]
        next == (index + 1) % capacity
    IN  IF visited >= capacity THEN -1
        ELSE IF entry.key = NULL THEN index + 1
        ELSE IF entry.key = key THEN index + 1
        ELSE find_entry_loop_stops_at_tombstone(h, entries, capacity, key, next,
                                                tombstone, visited + 1)

RECURSIVE find_entry_loop(_, _, _, _, _, _, _)
find_entry_loop(h, entries, capacity, key, index, tombstone, visited) ==
    LET entry == entries[index + 1]
        next == (index + 1) % capacity
    IN  IF visited >= capacity THEN Hang
        ELSE IF entry.key = NULL
        THEN IF is_loxnil(entry.value)
             THEN (IF tombstone # NULL THEN tombstone ELSE index + 1)
             ELSE find_entry_loop(h, entries, capacity, key, next,
                                  IF tombstone = NULL THEN index + 1 ELSE tombstone,
                                  visited + 1)
        ELSE IF entry.key = key THEN index + 1
        ELSE find_entry_loop(h, entries, capacity, key, next, tombstone, visited + 1)

find_entry(h, entries, capacity, key) ==
    find_entry_loop(h, entries, capacity, key, U32Mod(h[key].hash, capacity), NULL, 0)

\* [ret, out]: out is the caller's variable after the call.
table_get(h, self, key, outparam) ==
    IF self.count = 0 THEN [ret |-> FALSE, out |-> outparam]
    ELSE LET entry == find_entry(h, self.entries, self.capacity, key)
         IN  IF entry = Hang THEN [ret |-> Hang, out |-> outparam]
             ELSE IF self.entries[entry].key = NULL THEN [ret |-> FALSE, out |-> outparam]
             ELSE [ret |-> TRUE, out |-> self.entries[entry].value]

RECURSIVE adjust_loop(_, _, _, _, _, _)
adjust_loop(h, old, entries, capacity, i, count) ==
    IF i < Len(old)
    THEN LET src == old[i + 1]
         IN  IF src.key = NULL
             THEN adjust_loop(h, old, entries, capacity, i + 1, count)
             ELSE LET dst == find_entry(h, entries, capacity, src.key)
                  IN  adjust_loop(h, old,
                                  [entries EXCEPT ![dst] = [key |-> src.key, value |-> src.value]],
                                  capacity, i + 1, count + 1)
    ELSE [count |-> count, capacity |-> capacity, entries |-> entries]

\* adjust_capacity that keeps the count the table had, tombstones included.
adjust_capacity_count_kept(h, self, capacity) ==
    [adjust_loop(h, self.entries,
                 [i \in 1..capacity |-> [key |-> NULL, value |-> make_loxnil]],
                 capacity, 0, 0) EXCEPT !.count = self.count]

adjust_capacity(h, self, capacity) ==
    adjust_loop(h, self.entries,
                [i \in 1..capacity |-> [key |-> NULL, value |-> make_loxnil]],
                capacity, 0, 0)

\* count + 1 > capacity * TABLE_MAX_LOAD, with TABLE_MAX_LOAD = 0.75 = 3/4.
over_max_load(count, capacity) == 4 * (count + 1) > 3 * capacity

\* table_set that counts a key written over a tombstone a second time.
table_set_counts_tombstone(h, self, key, value) ==
    LET grown == IF over_max_load(self.count, self.capacity)
                 THEN adjust_capacity(h, self, grow_capacity(self.capacity))
                 ELSE self
        entry == find_entry(h, grown.entries, grown.capacity, key)
    IN  IF entry = Hang THEN [table |-> grown, ret |-> Hang]
        ELSE LET isnewkey == (grown.entries[entry].key = NULL)
             IN  [table |-> [grown EXCEPT !.count = IF isnewkey THEN @ + 1 ELSE @,
                                          !.entries[entry] = [key |-> key, value |-> value]],
                  ret |-> isnewkey]

\* table_set that does not report a key written over a tombstone as new.
table_set_tombstone_not_new(h, self, key, value) ==
    LET grown == IF 4 * (self.count + 1) > 3 * self.capacity
                 THEN adjust_capacity(h, self, grow_capacity(self.capacity))
                 ELSE self
        entry == find_entry(h, grown.entries, grown.capacity, key)
        fresh == grown.entries[entry].key = NULL /\ is_loxnil(grown.entries[entry].value)
    IN  [table |-> [grown EXCEPT !.count = IF fresh THEN @ + 1 ELSE @,
                                 !.entries[entry] = [key |-> key, value |-> value]],
         ret |-> fresh]

\* [table, ret].
table_set(h, self, key, value) ==
    LET grown == IF over_max_load(self.count, self.capacity)
                 THEN adjust_capacity(h, self, grow_capacity(self.capacity))
                 ELSE self
        entry == find_entry(h, grown.entries, grown.capacity, key)
    IN  IF entry = Hang THEN [table |-> grown, ret |-> Hang]
        ELSE LET isnewkey == (grown.entries[entry].key = NULL)
                 count == IF isnewkey /\ is_loxnil(grown.entries[entry].value)
                          THEN grown.count + 1 ELSE grown.count
             IN  [table |-> [grown EXCEPT !.count = count,
                                          !.entries[entry] = [key |-> key, value |-> value]],
                  ret |-> isnewkey]

\* table_delete that takes the deleted entry off the count.
table_delete_decrements_count(h, self, key) ==
    IF self.count = 0 THEN [table |-> self, ret |-> FALSE]
    ELSE LET entry == find_entry(h, self.entries, self.capacity, key)
         IN  IF entry = Hang THEN [table |-> self, ret |-> Hang]
             ELSE IF self.entries[entry].key = NULL THEN [table |-> self, ret |-> FALSE]
             ELSE [table |-> [self EXCEPT !.count = @ - 1,
                                          !.entries[entry] =
                                              [key |-> NULL, value |-> make_loxbool(TRUE)]],
                   ret |-> TRUE]

\* table_delete that empties the slot instead of leaving a tombstone.
table_delete_leaves_empty(h, self, key) ==
    IF self.count = 0 THEN [table |-> self, ret |-> FALSE]
    ELSE LET entry == find_entry(h, self.entries, self.capacity, key)
         IN  IF entry = Hang THEN [table |-> self, ret |-> Hang]
             ELSE IF self.entries[entry].key = NULL THEN [table |-> self, ret |-> FALSE]
             ELSE [table |-> [self EXCEPT !.entries[entry] =
                                  [key |-> NULL, value |-> make_loxnil]],
                   ret |-> TRUE]

\* [table, ret].
table_delete(h, self, key) ==
    IF self.count = 0 THEN [table |-> self, ret |-> FALSE]
    ELSE LET entry == find_entry(h, self.entries, self.capacity, key)
         IN  IF entry = Hang THEN [table |-> self, ret |-> Hang]
             ELSE IF self.entries[entry].key = NULL THEN [table |-> self, ret |-> FALSE]
             ELSE [table |-> [self EXCEPT !.entries[entry] =
                                  [key |-> NULL, value |-> make_loxbool(TRUE)]],
                   ret |-> TRUE]

\* [table, undefined]: table is dst.  The loop passes the entries of src whose key
\* is not NULL and calls table_set(dst, NULL, value) for the first one whose key is
\* NULL, which grows dst if it is over its load and then reads NULL->hash in
\* find_entry: undefined.
RECURSIVE table_add_all_loop(_, _, _, _)
table_add_all_loop(h, dst, src, i) ==
    IF i < src.capacity
    THEN IF src.entries[i + 1].key = NULL
         THEN [table |-> IF over_max_load(dst.count, dst.capacity)
                         THEN adjust_capacity(h, dst, grow_capacity(dst.capacity))
                         ELSE dst,
               undefined |-> TRUE]
         ELSE table_add_all_loop(h, dst, src, i + 1)
    ELSE [table |-> dst, undefined |-> FALSE]

table_add_all(h, dst, src) == table_add_all_loop(h, dst, src, 0)

\* memcmp(a, b, length) == 0 on the first length characters.
memcmp_equal(a, b, length) == \A i \in 1..length : a[i] = b[i]

\* table_findstring that gives up at the first slot that holds another string.
RECURSIVE findstring_loop_no_probe(_, _, _, _, _, _, _)
findstring_loop_no_probe(h, self, chars, length, hash, index, visited) ==
    LET entry == self.entries[index + 1]
    IN  IF entry.key # NULL
           /\ h[entry.key].length = length
           /\ h[entry.key].hash = hash
           /\ memcmp_equal(StringChars(h, entry.key), chars, length)
        THEN entry.key
        ELSE NULL

RECURSIVE findstring_loop(_, _, _, _, _, _, _)
findstring_loop(h, self, chars, length, hash, index, visited) ==
    LET entry == self.entries[index + 1]
        next == (index + 1) % self.capacity
    IN  IF visited >= self.capacity THEN Hang
        ELSE IF entry.key = NULL
        THEN IF is_loxnil(entry.value) THEN NULL
             ELSE findstring_loop(h, self, chars, length, hash, next, visited + 1)
        ELSE IF /\ h[entry.key].length = length
                /\ h[entry.key].hash = hash
                /\ memcmp_equal(StringChars(h, entry.key), chars, length)
        THEN entry.key
        ELSE findstring_loop(h, self, chars, length, hash, next, visited + 1)

table_findstring(h, self, chars, length, hash) ==
    IF self.count = 0 THEN NULL
    ELSE findstring_loop(h, self, chars, length, hash, U32Mod(hash, self.capacity), 0)

(***************************************************************************)
(* object.c.  The operators that allocate work on a record m that holds    *)
(* the heap and the two fields of the global vm they touch: m.heap,        *)
(* m.objects (head of the object list) and m.strings (the intern table).   *)
(* Each returns m with the returned pointer in m.ret.                      *)
(***************************************************************************)
OBJ_STRING == "OBJ_STRING"

allocate_object(m, type) ==
    LET object == [kind |-> "LoxString", live |-> TRUE, frees |-> 0,
                   type |-> type, next |-> m.objects,
                   length |-> 0, buffer |-> NULL, hash |-> <<0, 0>>]
    IN  [m EXCEPT !.heap = Append(m.heap, object),
                  !.objects = Len(m.heap) + 1,
                  !.ret = Len(m.heap) + 1]

allocate_string(m, buffer, length, hash) ==
    LET m1 == allocate_object(m, OBJ_STRING)
        s == m1.ret
        h2 == [m1.heap EXCEPT ![s].length = length, ![s].buffer = buffer, ![s].hash = hash]
    IN  [m1 EXCEPT !.heap = h2,
                   !.strings = table_set(h2, m1.strings, s, make_loxnil).table,
                   !.ret = s]

copy_string(m, literal, length) ==
    LET hash == hash_string(literal, length)
        interned == table_findstring(m.heap, m.strings, literal, length, hash)
    IN  IF interned # NULL THEN [m EXCEPT !.ret = interned]
        ELSE LET h1 == allocate_chars(m.heap, SubSeq(literal, 1, length))
             IN  allocate_string([m EXCEPT !.heap = h1], Len(h1), length, hash)

\* take_string that does not free the buffer of a string interned already.
take_string_keeps_buffer(m, buffer, length) ==
    LET hash == hash_string(m.heap[buffer].chars, length)
        interned == table_findstring(m.heap, m.strings, m.heap[buffer].chars, length, hash)
    IN  IF interned # NULL
        THEN [m EXCEPT !.ret = interned]
        ELSE allocate_string(m, buffer, length, hash)

\* buffer is a pointer to a char[] block of the heap.
take_string(m, buffer, length) ==
    LET hash == hash_string(m.heap[buffer].chars, length)
        interned == table_findstring(m.heap, m.strings, m.heap[buffer].chars, length, hash)
    IN  IF interned # NULL
        THEN [m EXCEPT !.heap = free_block(m.heap, buffer), !.ret = interned]
        ELSE allocate_string(m, buffer, length, hash)

(***************************************************************************)
(* value.c                                                                 *)
(***************************************************************************)
\* memcmp(a, b, length): 0 when the first length characters agree.
memcmp(a, b, length) ==
    IF \A i \in 1..length : a[i] = b[i] THEN 0
    ELSE LET i == CHOOSE i \in 1..length :
                      a[i] # b[i] /\ \A j \in 1..(i - 1) : a[j] = b[j]
         IN  Byte(a[i]) - Byte(b[i])

\* The conversion of an int to bool at a return.
int_to_bool(n) == n # 0

values_equal(h, lhs, rhs) ==
    IF lhs.type # rhs.type THEN FALSE
    ELSE CASE lhs.type = VAL_BOOL -> lhs.boolean = rhs.boolean
           [] lhs.type = VAL_NIL -> TRUE
           [] lhs.type = VAL_NUMBER -> NumEq(lhs.number, rhs.number)
           [] lhs.type = VAL_OBJECT ->
                LET s1 == lhs.object
                    s2 == rhs.object
                IN  IF h[s1].length = h[s2].length
                    THEN int_to_bool(memcmp(StringChars(h, s1), StringChars(h, s2), h[s1].length))
                    ELSE FALSE
           [] OTHER -> FALSE

(***************************************************************************)
(* vm.c: the global vm after init_vm.  The stack array is static, so it    *)
(* starts zeroed and keeps stale values above stacktop: `stack` holds the  *)
(* slots written so far (stack[i] in C is stack[i + 1] here).              *)
(***************************************************************************)
STACK_MAX == 256

empty_chunk == [code |-> <<>>, lines |-> <<>>, capacity |-> 0,
                constants |-> [values |-> <<>>, capacity |-> 0]]

reset_stack_vm(v) == [v EXCEPT !.stacktop = 0]

init_vm ==
    reset_stack_vm([chunk |-> empty_chunk, ip |-> 0, stack |-> <<>>, stacktop |-> 0,
                    objects |-> NULL, globals |-> init_table, strings |-> init_table])

\* The record the allocating operators of object.c work on, and back.
Mem(v, h) == [heap |-> h, objects |-> v.objects, strings |-> v.strings, ret |-> NULL]
WithMem(v, m) == [v EXCEPT !.objects = m.objects, !.strings = m.strings]

(***************************************************************************)
(* chunk.h / chunk.c: the opcodes are the values of the LoxOpCode enum, so *)
(* that an operand byte can be told from an opcode only by its position.   *)
(***************************************************************************)
OP_CONSTANT == 0
OP_NIL == 1
OP_TRUE == 2
OP_FALSE == 3
OP_EQUAL == 4
OP_GREATER == 5
OP_LESS == 6
OP_UNM == 7
OP_ADD == 8
OP_SUB == 9
OP_MUL == 10
OP_DIV == 11
OP_RET == 12
OP_NOT == 13
OP_PRINT == 14
OP_JUMP == 15
OP_JUMP_IF_FALSE == 16
OP_LOOP == 17
OP_POP == 18
OP_DEFINE_GLOBAL == 19
OP_GET_GLOBAL == 20
OP_GET_LOCAL == 21
OP_SET_GLOBAL == 22
OP_SET_LOCAL == 23

UINT8_MAX == 255
UINT8_COUNT == UINT8_MAX + 1
UINT16_MAX == 65535

write_valuearray(array, value) ==
    [values |-> Append(array.values, value),
     capacity |-> IF Len(array.values) + 1 > array.capacity
                  THEN grow_capacity(array.capacity) ELSE array.capacity]

\* write_chunk that records a line only when it differs from the last one recorded.
write_chunk_line_once(chunk, byte, line) ==
    [chunk EXCEPT !.capacity = IF Len(chunk.code) + 1 > @ THEN grow_capacity(@) ELSE @,
                  !.code = Append(@, byte),
                  !.lines = IF Len(@) > 0 /\ @[Len(@)] = line THEN @ ELSE Append(@, line)]

write_chunk(chunk, byte, line) ==
    [chunk EXCEPT !.capacity = IF Len(chunk.code) + 1 > @ THEN grow_capacity(@) ELSE @,
                  !.code = Append(@, byte),
                  !.lines = Append(@, line)]

\* [chunk, ret].
add_constant(chunk, value) ==
    [chunk |-> [chunk EXCEPT !.constants = write_valuearray(@, value)],
     ret |-> Len(chunk.constants.values)]

(***************************************************************************)
(* scanner.c.  The file-scope scanner is [source, start, current, line]:   *)
(* source is the text without its terminating NUL, start and current are   *)
(* offsets into it.  A LoxToken is [type, start, length, line], start      *)
(* being an offset into the source, or the message of a TOKEN_ERROR.       *)
(***************************************************************************)
scanner_init(source) == [source |-> source, start |-> 0, current |-> 0, line |-> 1]

\* *(source + offset)
CharAt(source, offset) == IF offset < Len(source) THEN source[offset + 1] ELSE NUL

scanner_is_at_end(sc) == CharAt(sc.source, sc.current) = NUL

scanner_advance(sc) == [sc EXCEPT !.current = @ + 1]

scanner_peek_current(sc) == CharAt(sc.source, sc.current)

scanner_peek_next(sc) ==
    IF scanner_is_at_end(sc) THEN NUL ELSE CharAt(sc.source, sc.current + 1)

scanner_make_token(sc, type) ==
    [type |-> type, start |-> sc.start, length |-> sc.current - sc.start, line |-> sc.line]

error_token(sc, message) ==
    [type |-> "TOKEN_ERROR", start |-> message, length |-> 0, line |-> sc.line]

RECURSIVE skip_comment(_)
skip_comment(sc) ==
    IF scanner_peek_current(sc) # "\n" /\ ~scanner_is_at_end(sc)
    THEN skip_comment(scanner_advance(sc))
    ELSE sc

\* The case '/' of the switch, which case '\n' falls into.
RECURSIVE scanner_skip_whitespace(_)
skip_slash(sc) ==
    IF scanner_peek_next(sc) = "/" THEN [again |-> TRUE, sc |-> skip_comment(sc)]
    ELSE [again |-> FALSE, sc |-> sc]

scanner_skip_whitespace(sc) ==
    LET c == scanner_peek_current(sc)
    IN  IF c \in {" ", "\r", "\t"} THEN scanner_skip_whitespace(scanner_advance(sc))
        ELSE IF c = "\n"
        THEN LET r == skip_slash(scanner_advance([sc EXCEPT !.line = @ + 1]))
             IN  IF r.again THEN scanner_skip_whitespace(r.sc) ELSE r.sc
        ELSE IF c = "/"
        THEN LET r == skip_slash(sc)
             IN  IF r.again THEN scanner_skip_whitespace(r.sc) ELSE r.sc
        ELSE sc

\* memcmp(scanner.start + start, rest, length) == 0
check_keyword(sc, start, rest, type) ==
    IF sc.current - sc.start = start + Len(rest)
       /\ \A i \in 1..Len(rest) : CharAt(sc.source, sc.start + start + i - 1) = rest[i]
    THEN type
    ELSE "TOKEN_IDENTIFIER"

\* The switch on the first character from its case label on: the cases
\* 'f' and 't' have no break and fall into the case below them.
identifier_type_i(sc) == check_keyword(sc, 1, <<"f">>, "TOKEN_IF")
identifier_type_v(sc) == check_keyword(sc, 1, <<"a", "r">>, "TOKEN_VAR")

identifier_type(sc) ==
    LET c == CharAt(sc.source, sc.start)
        c1 == CharAt(sc.source, sc.start + 1)
        long == sc.current - sc.start > 1
    IN  CASE c = "a" -> check_keyword(sc, 1, <<"n", "d">>, "TOKEN_AND")
          [] c = "c" -> check_keyword(sc, 1, <<"l", "a", "s", "s">>, "TOKEN_CLASS")
          [] c = "e" -> check_keyword(sc, 1, <<"l", "s", "e">>, "TOKEN_ELSE")
          [] c = "f" ->
               IF long /\ c1 = "a" THEN check_keyword(sc, 2, <<"l", "s", "e">>, "TOKEN_FALSE")
               ELSE IF long /\ c1 = "o" THEN check_keyword(sc, 2, <<"r">>, "TOKEN_FOR")
               ELSE IF long /\ c1 = "u" THEN check_keyword(sc, 2, <<"n">>, "TOKEN_FUN")
               ELSE identifier_type_i(sc)
          [] c = "i" -> identifier_type_i(sc)
          [] c = "n" -> check_keyword(sc, 1, <<"i", "l">>, "TOKEN_NIL")
          [] c = "o" -> check_keyword(sc, 1, <<"r">>, "TOKEN_OR")
          [] c = "p" -> check_keyword(sc, 1, <<"r", "i", "n", "t">>, "TOKEN_OR")
          [] c = "r" -> check_keyword(sc, 1, <<"e", "t", "u", "r", "n">>, "TOKEN_RETURN")
          [] c = "s" -> check_keyword(sc, 1, <<"u", "p", "e", "r">>, "TOKEN_SUPER")
          [] c = "t" ->
               IF long /\ c1 = "r" THEN check_keyword(sc, 2, <<"u", "e">>, "TOKEN_TRUE")
               ELSE IF long /\ c1 = "h" THEN check_keyword(sc, 2, <<"i", "s">>, "TOKEN_THIS")
               ELSE identifier_type_v(sc)
          [] c = "v" -> identifier_type_v(sc)
          [] c = "w" -> check_keyword(sc, 1, <<"h", "i", "l", "e">>, "TOKEN_WHILE")
          [] OTHER -> "TOKEN_IDENTIFIER"

isident(c) == isalpha(c) \/ isdigit(c) \/ c = "_"

\* The scanning functions give [sc, token].
RECURSIVE scanner_scan_identifier(_)
scanner_scan_identifier(sc) ==
    IF isident(scanner_peek_current(sc)) THEN scanner_scan_identifier(scanner_advance(sc))
    ELSE [sc |-> sc, token |-> scanner_make_token(sc, identifier_type(sc))]

RECURSIVE scanner_scan_string(_)
scanner_scan_string(sc) ==
    IF scanner_peek_current(sc) # "\"" /\ ~scanner_is_at_end(sc)
    THEN scanner_scan_string(scanner_advance(
             IF scanner_peek_current(sc) = "\n" THEN [sc EXCEPT !.line = @ + 1] ELSE sc))
    ELSE IF scanner_is_at_end(sc)
    THEN [sc |-> sc, token |-> error_token(sc, "Unterminated string.")]
    ELSE LET sc1 == scanner_advance(sc)
         IN  [sc |-> sc1, token |-> scanner_make_token(sc1, "TOKEN_STRING")]

RECURSIVE scan_digits(_)
scan_digits(sc) ==
    IF isdigit(scanner_peek_current(sc)) THEN scan_digits(scanner_advance(sc)) ELSE sc

scanner_scan_number(sc) ==
    LET sc1 == scan_digits(sc)
        sc2 == IF scanner_peek_current(sc1) = "." /\ isdigit(scanner_peek_next(sc1))
               THEN scan_digits(scanner_advance(sc1))
               ELSE sc1
    IN  [sc |-> sc2, token |-> scanner_make_token(sc2, "TOKEN_NUMBER")]

\* scanner_match(expected) ? yes : no
scanner_match(sc, expected, yes, no) ==
    IF ~scanner_is_at_end(sc) /\ scanner_peek_current(sc) = expected
    THEN LET sc1 == scanner_advance(sc)
         IN  [sc |-> sc1, token |-> scanner_make_token(sc1, yes)]
    ELSE [sc |-> sc, token |-> scanner_make_token(sc, no)]

SingleCharacter(c) ==
    CASE c = "(" -> "TOKEN_LEFT_PAREN"
      [] c = ")" -> "TOKEN_RIGHT_PAREN"
      [] c = "{" -> "TOKEN_LEFT_BRACE"
      [] c = "}" -> "TOKEN_RIGHT_BRACE"
      [] c = ";" -> "TOKEN_SEMICOLON"
      [] c = "," -> "TOKEN_COMMA"
      [] c = "." -> "TOKEN_DOT"
      [] c = "-" -> "TOKEN_MINUS"
      [] c = "+" -> "TOKEN_PLUS"
      [] c = "/" -> "TOKEN_SLASH"
      [] c = "*" -> "TOKEN_STAR"
      [] OTHER -> "TOKEN_ERROR"

scanner_scan_token(sc0) ==
    LET sk == scanner_skip_whitespace(sc0)
        sc1 == [sk EXCEPT !.start = sk.current]
        c == scanner_peek_current(sc1)
        sc2 == scanner_advance(sc1)
    IN  IF scanner_is_at_end(sc1)
        THEN [sc |-> sc1, token |-> scanner_make_token(sc1, "TOKEN_EOF")]
        ELSE IF isalpha(c) \/ c = "_" THEN scanner_scan_identifier(sc2)
        ELSE IF isdigit(c) THEN scanner_scan_number(sc2)
        ELSE IF SingleCharacter(c) # "TOKEN_ERROR"
        THEN [sc |-> sc2, token |-> scanner_make_token(sc2, SingleCharacter(c))]
        ELSE IF c = "!" THEN scanner_match(sc2, "=", "TOKEN_BANG_EQUAL", "TOKEN_BANG")
        ELSE IF c = "=" THEN scanner_match(sc2, "=", "TOKEN_EQUAL_EQUAL", "TOKEN_EQUAL")
        ELSE IF c = "<" THEN scanner_match(sc2, "=", "TOKEN_LESS_EQUAL", "TOKEN_LESS")
        ELSE IF c = ">" THEN scanner_match(sc2, "=", "TOKEN_GREATER_EQUAL", "TOKEN_GREATER")
        ELSE IF c = "\"" THEN scanner_scan_string(sc2)
        ELSE [sc |-> sc2, token |-> error_token(sc2, "Unexpected character.")]

(***************************************************************************)
(* compiler.c.  The file-scope parser, the current LoxCompiler, the chunk  *)
(* being compiled, the scanner's position and the parts of the vm that     *)
(* copy_string touches are the fields of one record p, which every         *)
(* function takes and returns; a C return value is left in p.ret.  The     *)
(* scanner is p.scanner: compiler.c calls scanner_init and                 *)
(* scanner_scan_token under the names init_scanner and scan_token.         *)
(* p.stmts is history: the code span of every statement compiled, which    *)
(* the code does not keep.                                                 *)
(* C runs the statements of a function in order.  Where a definition has   *)
(* the form LET p1 == ... p2 == ... IN CASE p1 # p1 -> p1 [] p2 # p2 -> p2 *)
(* [] ..., the first arms are never taken: they have p1, then p2,          *)
(* evaluated before the arms that follow.                                  *)
(***************************************************************************)
PREC_NONE == 0
PREC_ASSIGNMENT == 1
PREC_OR == 2
PREC_AND == 3
PREC_EQUALITY == 4
PREC_COMPARISON == 5
PREC_TERMINAL == 6
PREC_FACTOR == 7
PREC_UNARY == 8
PREC_CALL == 9
PREC_PRIMARY == 10

\* parser = {0}: the token a zeroed LoxToken is.
zero_token == [type |-> "TOKEN_LEFT_PAREN", start |-> NULL, length |-> 0, line |-> 0]

\* Call(fn, args) is the C function named fn applied to args.  The functions
\* of the compiler, which are mutually recursive, call each other through it.
RECURSIVE Call(_, _)

\* while (cond(s)) s = body(s), cond and body being the names Call knows the
\* condition and the body by.  while_turns runs at most 4^k turns of the
\* loop, a quarter after the other (s1 # s1 is FALSE; it has s1 evaluated),
\* and while_loop runs 4^k turns, then 4^(k+1), and so on: the depth of the
\* evaluation grows with the logarithm of the number of turns.
RECURSIVE while_turns(_, _, _, _)
while_turns(cond, body, s, k) ==
    IF k = 0 THEN (IF Call(cond, <<s>>) THEN Call(body, <<s>>) ELSE s)
    ELSE LET s1 == while_turns(cond, body, s, k - 1)
             s2 == while_turns(cond, body, s1, k - 1)
             s3 == while_turns(cond, body, s2, k - 1)
             s4 == while_turns(cond, body, s3, k - 1)
         IN  CASE s1 # s1 -> s1
               [] s2 # s2 -> s2
               [] s3 # s3 -> s3
               [] OTHER -> s4

RECURSIVE while_loop(_, _, _, _)
while_loop(cond, body, s, k) ==
    LET t == while_turns(cond, body, s, k)
    IN  CASE t # t -> t
          [] Call(cond, <<t>>) -> while_loop(cond, body, t, k + 1)
          [] OTHER -> t

init_scanner(p, source) == [p EXCEPT !.scanner = scanner_init(source)]

scan_token(p) ==
    LET r == scanner_scan_token(p.scanner)
    IN  [p EXCEPT !.scanner = r.sc, !.ret = r.token]

\* The token->length characters at token->start.
Lexeme(p, token) == SubSeq(p.scanner.source, token.start + 1, token.start + token.length)

\* What is left of the source: the characters the scanner has not read, and the
\* current token unless it is TOKEN_EOF.
Remaining(p) ==
    (Len(p.scanner.source) - p.scanner.current)
        + (IF p.current.type = "TOKEN_EOF" THEN 0 ELSE 1)

\* History: trace is what error_at, synchronize and declaration did, in order: kind is
\* "diagnostic" for a message written, "suppressed" for one that was not,
\* "synchronize" when synchronize starts and "synchronized" when it returns; before
\* is panicmode as the call found it, and the rest is the parser as the call left it.
\* "skipped" is one turn of the loop of synchronize and "declared" the return of a
\* declaration; before is then what was left of the source when it began.
note_event(p, kind, before) ==
    [p EXCEPT !.trace = Append(@, [kind |-> kind, before |-> before,
                                   panicmode |-> p.panicmode, haderror |-> p.haderror,
                                   current |-> p.current.type,
                                   previous |-> p.previous.type,
                                   remaining |-> Remaining(p)])]

error_at(p, token, message) ==
    IF p.panicmode THEN note_event(p, "suppressed", TRUE)
    ELSE note_event([p EXCEPT !.panicmode = TRUE,
                   !.err = Append(@, [line |-> token.line,
                                      at |-> IF token.type = "TOKEN_EOF" THEN <<"end">>
                                             ELSE IF token.type = "TOKEN_ERROR" THEN <<>>
                                             ELSE <<"'", Lexeme(p, token), "'">>,
                                      message |-> message]),
                   !.haderror = TRUE], "diagnostic", FALSE)

error(p, message) == error_at(p, p.previous, message)
error_at_current(p, message) == error_at(p, p.current, message)

RECURSIVE advance_loop(_)
advance_loop(p) ==
    LET p1 == Call("scan_token", <<p>>)
        p2 == [p1 EXCEPT !.current = p1.ret]
    IN  CASE p1 # p1 -> p1
          [] p1.ret.type # "TOKEN_ERROR" -> p2
          [] OTHER -> advance_loop(error_at_current(p2, p2.current.start))

advance(p) == advance_loop([p EXCEPT !.previous = p.current])

consume(p, type, message) ==
    IF p.current.type = type THEN Call("advance", <<p>>) ELSE error_at_current(p, message)

check(p, type) == p.current.type = type

\* p.ret is what match returns.
match(p, type) ==
    IF ~check(p, type) THEN [p EXCEPT !.ret = FALSE]
    ELSE [Call("advance", <<p>>) EXCEPT !.ret = TRUE]

\* The parameter is a uint8_t.
emit_byte(p, byte) == [p EXCEPT !.chunk = write_chunk(@, byte % 256, p.previous.line)]
emit_bytes(p, byte1, byte2) == emit_byte(emit_byte(p, byte1), byte2)

\* The capacity of an array after it has grown to hold count elements.
RECURSIVE grown_capacity(_, _)
grown_capacity(capacity, count) ==
    IF count > capacity THEN grown_capacity(grow_capacity(capacity), count) ELSE capacity

\* n calls of emit_byte(byte).
emit_body(p, byte, n) ==
    [p EXCEPT !.chunk.code = @ \o [i \in 1..n |-> byte % 256],
              !.chunk.lines = @ \o [i \in 1..n |-> p.previous.line],
              !.chunk.capacity = grown_capacity(@, Len(p.chunk.code) + n)]

mask_int16_upper(n) == (n \div 256) % 256
mask_int16_lower(n) == n % 256

\* emit_loop that leaves the two operand bytes out of the distance.
emit_loop_without_operand(p, loopstart) ==
    LET p1 == emit_byte(p, OP_LOOP)
        offset == Len(p1.chunk.code) - loopstart
        p2 == IF offset > UINT16_MAX THEN error(p1, "Loop body too large.") ELSE p1
    IN  emit_byte(emit_byte(p2, mask_int16_upper(offset)), mask_int16_lower(offset))

emit_loop(p, loopstart) ==
    LET p1 == emit_byte(p, OP_LOOP)
        offset == Len(p1.chunk.code) - loopstart + 2
        p2 == IF offset > UINT16_MAX THEN error(p1, "Loop body too large.") ELSE p1
    IN  emit_byte(emit_byte(p2, mask_int16_upper(offset)), mask_int16_lower(offset))

emit_jump(p, instruction) ==
    LET p1 == emit_byte(emit_byte(emit_byte(p, instruction), 255), 255)
    IN  [p1 EXCEPT !.ret = Len(p1.chunk.code) - 2]

emit_return(p) == emit_byte(p, OP_RET)

make_constant(p, value) ==
    LET r == add_constant(p.chunk, value)
        p1 == [p EXCEPT !.chunk = r.chunk]
    IN  IF r.ret > UINT8_MAX
        THEN [error(p1, "Too many constants in one chunk.") EXCEPT !.ret = 0]
        ELSE [p1 EXCEPT !.ret = r.ret]

emit_constant(p, value) ==
    LET p1 == make_constant(p, value)
    IN  emit_bytes(p1, OP_CONSTANT, p1.ret)

\* patch_jump that writes the low byte of the distance first.
patch_jump_low_byte_first(p, offset) ==
    LET jump == Len(p.chunk.code) - offset - 2
        p1 == IF jump > UINT16_MAX THEN error(p, "Too much code to jump over.") ELSE p
    IN  [p1 EXCEPT !.chunk.code[offset + 1] = mask_int16_lower(jump),
                   !.chunk.code[offset + 2] = mask_int16_upper(jump)]

patch_jump(p, offset) ==
    LET jump == Len(p.chunk.code) - offset - 2
        p1 == IF jump > UINT16_MAX THEN error(p, "Too much code to jump over.") ELSE p
    IN  [p1 EXCEPT !.chunk.code[offset + 1] = mask_int16_upper(jump),
                   !.chunk.code[offset + 2] = mask_int16_lower(jump)]

end_compiler(p) == emit_return(p)

beginscope(p) == [p EXCEPT !.scopedepth = @ + 1]

\* The condition and the body of the while loop of endscope.
endscope_condition(p) ==
    Len(p.locals) > 0 /\ p.locals[Len(p.locals)].depth > p.scopedepth

endscope_body(p) == [emit_byte(p, OP_POP) EXCEPT !.locals = SubSeq(@, 1, Len(@) - 1)]

\* endscope that forgets the locals of the scope without emitting their OP_POP.
endscope_keeps_locals(p) ==
    [p EXCEPT !.scopedepth = @ - 1,
              !.locals = SelectSeq(@, LAMBDA local : local.depth <= p.scopedepth - 1)]

endscope(p) ==
    while_loop("endscope_condition", "endscope_body", [p EXCEPT !.scopedepth = @ - 1], 1)

identifier_constant(p, name) ==
    LET p1 == Call("copy_string", <<p, Lexeme(p, name), name.length>>)
    IN  CASE p1 # p1 -> p1
          [] OTHER -> make_constant(p1, make_loxobject(p1.ret))

identifiers_equal(p, lhs, rhs) ==
    IF lhs.length # rhs.length THEN FALSE
    ELSE memcmp(Lexeme(p, lhs), Lexeme(p, rhs), lhs.length) = 0

\* The loop of resolve_local without the look at local->depth.
RECURSIVE resolve_local_loop_any_depth(_, _, _)
resolve_local_loop_any_depth(p, name, i) ==
    IF i < 0 THEN [p EXCEPT !.ret = -1]
    ELSE IF identifiers_equal(p, name, p.locals[i + 1].name)
    THEN [p EXCEPT !.ret = i, !.unready = IF p.locals[i + 1].depth = -1 THEN @ + 1 ELSE @]
    ELSE resolve_local_loop_any_depth(p, name, i - 1)

\* [p, ret]: i counts down from localcount - 1.  p.unready is history: the
\* number of names resolved to a local whose depth is -1.
RECURSIVE resolve_local_loop(_, _, _)
resolve_local_loop(p, name, i) ==
    IF i < 0 THEN [p EXCEPT !.ret = -1]
    ELSE IF identifiers_equal(p, name, p.locals[i + 1].name)
    THEN IF p.locals[i + 1].depth = -1
         THEN [error(p, "Can't read local variable in its own initializer.")
                  EXCEPT !.ret = i, !.unready = @ + 1]
         ELSE [p EXCEPT !.ret = i]
    ELSE resolve_local_loop(p, name, i - 1)

resolve_local(p, name) == resolve_local_loop(p, name, Len(p.locals) - 1)

\* addlocal that lets the count pass the size of the array by one.
addlocal_off_by_one(p, name) ==
    IF Len(p.locals) > UINT8_COUNT
    THEN error(p, "Too many local variables in function.")
    ELSE [p EXCEPT !.locals = Append(@, [name |-> name, depth |-> -1]),
                   !.peak = IF Len(p.locals) + 1 > @ THEN Len(p.locals) + 1 ELSE @]

\* History: peak is the largest localcount the compilation has had.

addlocal(p, name) ==
    IF Len(p.locals) >= UINT8_COUNT
    THEN error(p, "Too many local variables in function.")
    ELSE [p EXCEPT !.locals = Append(@, [name |-> name, depth |-> -1]),
                   !.peak = IF Len(p.locals) + 1 > @ THEN Len(p.locals) + 1 ELSE @]

\* The condition and the body of the for loop of declare_variable, on
\* s = [p, name, i]; the break is part of the condition.
\* The break taken at the first local of the scope being looked at as well.
declare_condition_stops_at_scope(s) ==
    /\ s.i >= 0
    /\ ~(s.p.locals[s.i + 1].depth # -1 /\ s.p.locals[s.i + 1].depth <= s.p.scopedepth)

declare_condition(s) ==
    /\ s.i >= 0
    /\ ~(s.p.locals[s.i + 1].depth # -1 /\ s.p.locals[s.i + 1].depth < s.p.scopedepth)

declare_body(s) ==
    [s EXCEPT !.p = IF identifiers_equal(@, s.name, @.locals[s.i + 1].name)
                    THEN error(@, "A variable with this name already exists in this scope.")
                    ELSE @,
              !.i = @ - 1]

\* History: p.duplicates counts the declarations of a name that a local of the
\* scope being compiled has already.
note_declaration(p) ==
    IF \E i \in 1..Len(p.locals) : /\ p.locals[i].depth = p.scopedepth
                                   /\ identifiers_equal(p, p.previous, p.locals[i].name)
    THEN [p EXCEPT !.duplicates = @ + 1]
    ELSE p

declare_variable(p) ==
    IF p.scopedepth = 0 THEN p
    ELSE addlocal(while_loop("declare_condition", "declare_body",
                             [p |-> note_declaration(p), name |-> p.previous,
                              i |-> Len(p.locals) - 1], 1).p,
                  p.previous)

parse_variable(p, error_message) ==
    LET p0 == Call("consume", <<p, "TOKEN_IDENTIFIER", error_message>>)
        p1 == declare_variable(p0)
    IN  CASE p0 # p0 -> p0
          [] p1.scopedepth > 0 -> [p1 EXCEPT !.ret = 0]
          [] OTHER -> Call("identifier_constant", <<p1, p1.previous>>)

mark_initialized(p) == [p EXCEPT !.locals[Len(p.locals)].depth = p.scopedepth]

define_variable(p, global) ==
    IF p.scopedepth > 0 THEN mark_initialized(p)
    ELSE emit_bytes(p, OP_DEFINE_GLOBAL, global)


\* strtod(nptr, NULL), nptr being an offset into the source: the decimal
\* digits from there on, and the digits after a '.' that follows them.
RECURSIVE strtod_loop(_, _, _, _, _)
strtod_loop(source, offset, n, d, seendot) ==
    LET c == CharAt(source, offset)
    IN  IF isdigit(c)
        THEN strtod_loop(source, offset + 1, (n * 10) + (Byte(c) - 48),
                         IF seendot THEN d * 10 ELSE d, seendot)
        ELSE IF c = "." /\ ~seendot THEN strtod_loop(source, offset + 1, n, d, TRUE)
        ELSE Rat(n, d)

strtod(source, nptr) == strtod_loop(source, nptr, 0, 1, FALSE)

NoRule == [prefix |-> "NULL", infix |-> "NULL", precedence |-> PREC_NONE]

rules(type) ==
    CASE type = "TOKEN_LEFT_PAREN" -> [prefix |-> "grouping", infix |-> "NULL", precedence |-> PREC_NONE]
      [] type = "TOKEN_MINUS" -> [prefix |-> "unary", infix |-> "binary", precedence |-> PREC_TERMINAL]
      [] type = "TOKEN_PLUS" -> [prefix |-> "NULL", infix |-> "binary", precedence |-> PREC_TERMINAL]
      [] type = "TOKEN_SLASH" -> [prefix |-> "NULL", infix |-> "binary", precedence |-> PREC_FACTOR]
      [] type = "TOKEN_STAR" -> [prefix |-> "NULL", infix |-> "binary", precedence |-> PREC_FACTOR]
      [] type = "TOKEN_BANG" -> [prefix |-> "unary", infix |-> "NULL", precedence |-> PREC_NONE]
      [] type = "TOKEN_BANG_EQUAL" -> [prefix |-> "NULL", infix |-> "binary", precedence |-> PREC_EQUALITY]
      [] type = "TOKEN_EQUAL_EQUAL" -> [prefix |-> "NULL", infix |-> "binary", precedence |-> PREC_EQUALITY]
      [] type = "TOKEN_GREATER" -> [prefix |-> "NULL", infix |-> "binary", precedence |-> PREC_COMPARISON]
      [] type = "TOKEN_GREATER_EQUAL" -> [prefix |-> "NULL", infix |-> "binary", precedence |-> PREC_COMPARISON]
      [] type = "TOKEN_LESS" -> [prefix |-> "NULL", infix |-> "binary", precedence |-> PREC_COMPARISON]
      [] type = "TOKEN_LESS_EQUAL" -> [prefix |-> "NULL", infix |-> "binary", precedence |-> PREC_COMPARISON]
      [] type = "TOKEN_IDENTIFIER" -> [prefix |-> "variable", infix |-> "NULL", precedence |-> PREC_NONE]
      [] type = "TOKEN_STRING" -> [prefix |-> "string", infix |-> "NULL", precedence |-> PREC_NONE]
      [] type = "TOKEN_NUMBER" -> [prefix |-> "number", infix |-> "NULL", precedence |-> PREC_NONE]
      [] type = "TOKEN_AND" -> [prefix |-> "NULL", infix |-> "and_", precedence |-> PREC_AND]
      [] type = "TOKEN_FALSE" -> [prefix |-> "literal", infix |-> "NULL", precedence |-> PREC_NONE]
      [] type = "TOKEN_NIL" -> [prefix |-> "literal", infix |-> "NULL", precedence |-> PREC_NONE]
      [] type = "TOKEN_OR" -> [prefix |-> "NULL", infix |-> "or_", precedence |-> PREC_OR]
      [] type = "TOKEN_TRUE" -> [prefix |-> "literal", infix |-> "NULL", precedence |-> PREC_NONE]
      [] OTHER -> NoRule

\* get_rule with the precedence of assignment for '=', which has no infix rule.
get_rule_equal_has_precedence(type) ==
    IF type = "TOKEN_EQUAL" THEN [rules(type) EXCEPT !.precedence = PREC_ASSIGNMENT]
    ELSE rules(type)

get_rule(type) == rules(type)

RECURSIVE infix_loop(_, _, _)

\* History: the statement, or the right operand of and and or, compiled from
\* code offset start up to offset end, and the number of locals the compiler holds
\* at its end.
note_statement(p, kind, start) ==
    [p EXCEPT !.stmts = Append(@, [kind |-> kind, start |-> start,
                                   end |-> Len(p.chunk.code),
                                   locals |-> Len(p.locals)])]

\* and_ that leaves the left operand on the stack under the right one.
and_without_pop(p, can_assign) ==
    LET p1 == emit_jump(p, OP_JUMP_IF_FALSE)
        endjump == p1.ret
        p2 == Call("parse_precedence", <<p1, PREC_AND>>)
    IN  CASE p2 # p2 -> p2
          [] OTHER -> note_statement(patch_jump(p2, endjump), "and", Len(p1.chunk.code))

\* The bytecode of the right operand, from its OP_POP on, is noted as "and".
and_(p, can_assign) ==
    LET p1 == emit_jump(p, OP_JUMP_IF_FALSE)
        endjump == p1.ret
        p2 == Call("parse_precedence", <<emit_byte(p1, OP_POP), PREC_AND>>)
    IN  CASE p2 # p2 -> p2
          [] OTHER -> note_statement(patch_jump(p2, endjump), "and", Len(p1.chunk.code))

\* binary that parses its right operand at its own precedence.
binary_own_precedence(p, can_assign) ==
    LET optype == p.previous.type
        rule == get_rule(optype)
        p1 == Call("parse_precedence", <<p, rule.precedence>>)
    IN  CASE p1 # p1 -> p1
          [] optype = "TOKEN_EQUAL_EQUAL" -> emit_byte(p1, OP_EQUAL)
          [] optype = "TOKEN_GREATER" -> emit_byte(p1, OP_GREATER)
          [] optype = "TOKEN_BANG_EQUAL" -> emit_bytes(p1, OP_EQUAL, OP_NOT)
          [] optype = "TOKEN_LESS" -> emit_byte(p1, OP_LESS)
          [] optype = "TOKEN_GREATER_EQUAL" -> emit_bytes(p1, OP_LESS, OP_NOT)
          [] optype = "TOKEN_LESS_EQUAL" -> emit_bytes(p1, OP_GREATER, OP_NOT)
          [] optype = "TOKEN_PLUS" -> emit_byte(p1, OP_ADD)
          [] optype = "TOKEN_MINUS" -> emit_byte(p1, OP_SUB)
          [] optype = "TOKEN_STAR" -> emit_byte(p1, OP_MUL)
          [] optype = "TOKEN_SLASH" -> emit_byte(p1, OP_DIV)
          [] OTHER -> p1

binary(p, can_assign) ==
    LET optype == p.previous.type
        rule == get_rule(optype)
        p1 == Call("parse_precedence", <<p, rule.precedence + 1>>)
    IN  CASE p1 # p1 -> p1
          [] optype = "TOKEN_EQUAL_EQUAL" -> emit_byte(p1, OP_EQUAL)
          [] optype = "TOKEN_GREATER" -> emit_byte(p1, OP_GREATER)
          [] optype = "TOKEN_BANG_EQUAL" -> emit_bytes(p1, OP_EQUAL, OP_NOT)
          [] optype = "TOKEN_LESS" -> emit_byte(p1, OP_LESS)
          [] optype = "TOKEN_GREATER_EQUAL" -> emit_bytes(p1, OP_LESS, OP_NOT)
          [] optype = "TOKEN_LESS_EQUAL" -> emit_bytes(p1, OP_GREATER, OP_NOT)
          [] optype = "TOKEN_PLUS" -> emit_byte(p1, OP_ADD)
          [] optype = "TOKEN_MINUS" -> emit_byte(p1, OP_SUB)
          [] optype = "TOKEN_STAR" -> emit_byte(p1, OP_MUL)
          [] optype = "TOKEN_SLASH" -> emit_byte(p1, OP_DIV)
          [] OTHER -> p1

literal(p, can_assign) ==
    CASE p.previous.type = "TOKEN_FALSE" -> emit_byte(p, OP_FALSE)
      [] p.previous.type = "TOKEN_NIL" -> emit_byte(p, OP_NIL)
      [] p.previous.type = "TOKEN_TRUE" -> emit_byte(p, OP_TRUE)
      [] OTHER -> p

grouping(p, can_assign) ==
    LET p1 == Call("expression", <<p>>)
    IN  CASE p1 # p1 -> p1
          [] OTHER -> Call("consume", <<p1, "TOKEN_RIGHT_PAREN", "Expected ')' after expression.">>)

number(p, can_assign) ==
    emit_constant(p, make_loxnumber(strtod(p.scanner.source, p.previous.start)))

\* The bytecode of the right operand, from its OP_POP on, is noted as "or".
or_(p, can_assign) ==
    LET p1 == emit_jump(p, OP_JUMP_IF_FALSE)
        elsejump == p1.ret
        p2 == emit_jump(p1, OP_JUMP)
        endjump == p2.ret
        p3 == emit_byte(patch_jump(p2, elsejump), OP_POP)
        p4 == Call("parse_precedence", <<p3, PREC_OR>>)
    IN  CASE p4 # p4 -> p4
          [] OTHER -> note_statement(patch_jump(p4, endjump), "or", Len(p2.chunk.code))

string(p, can_assign) ==
    LET p1 == Call("copy_string", <<p, SubSeq(p.scanner.source, p.previous.start + 2, Len(p.scanner.source)),
                          p.previous.length - 2>>)
    IN  CASE p1 # p1 -> p1
          [] OTHER -> emit_constant(p1, make_loxobject(p1.ret))

named_variable(p, name, can_assign) ==
    LET p1 == resolve_local(p, name)
        islocal == p1.ret # -1
        p2 == IF islocal THEN p1 ELSE Call("identifier_constant", <<p1, name>>)
        arg == p2.ret
        getop == IF islocal THEN OP_GET_LOCAL ELSE OP_GET_GLOBAL
        setop == IF islocal THEN OP_SET_LOCAL ELSE OP_SET_GLOBAL
        p3 == IF can_assign THEN Call("match", <<p2, "TOKEN_EQUAL">>) ELSE [p2 EXCEPT !.ret = FALSE]
        p4 == IF p3.ret THEN Call("expression", <<p3>>) ELSE p3
    IN  CASE p2 # p2 -> p2
          [] p3 # p3 -> p3
          [] p4 # p4 -> p4
          [] p3.ret -> emit_bytes(p4, setop, arg)
          [] OTHER -> emit_bytes(p3, getop, arg)

variable(p, can_assign) == Call("named_variable", <<p, p.previous, can_assign>>)

unary(p, can_assign) ==
    LET optype == p.previous.type
        p1 == Call("parse_precedence", <<p, PREC_UNARY>>)
    IN  CASE p1 # p1 -> p1
          [] optype = "TOKEN_BANG" -> emit_byte(p1, OP_NOT)
          [] optype = "TOKEN_MINUS" -> emit_byte(p1, OP_UNM)
          [] OTHER -> p1

\* The call through a LoxParseFn; a call through NULL leaves p.crashed set.
call_rule(fn, p, can_assign) ==
    IF fn = "NULL" THEN [p EXCEPT !.crashed = TRUE] ELSE Call(fn, <<p, can_assign>>)

\* History: "infix" is noted with the token whose infix rule is about to be called.
infix_loop(p, precedence, can_assign) ==
    LET p1 == Call("advance", <<p>>)
        infix_rule == get_rule(p1.previous.type).infix
        p2 == call_rule(infix_rule, note_event(p1, "infix", p1.previous.type), can_assign)
    IN  CASE p.crashed \/ ~(precedence <= get_rule(p.current.type).precedence) -> p
          [] p1 # p1 -> p1
          [] p2 # p2 -> p2
          [] OTHER -> infix_loop(p2, precedence, can_assign)

\* History: "parse_precedence" is noted with the precedence asked for, after the
\* advance; "prefix" with the token whose prefix rule is about to be called, and
\* "no_prefix" with the token that has none, after the error.

\* parse_precedence that leaves an '=' it did not consume to its caller.
parse_precedence_any_target(p, precedence) ==
    LET p1 == note_event(Call("advance", <<p>>), "parse_precedence", precedence)
        prefix_rule == get_rule(p1.previous.type).prefix
        can_assign == precedence <= PREC_ASSIGNMENT
        p2 == call_rule(prefix_rule, note_event(p1, "prefix", p1.previous.type), can_assign)
        p3 == infix_loop(p2, precedence, can_assign)
    IN  CASE p1 # p1 -> p1
          [] prefix_rule = "NULL" ->
                note_event(error(p1, "Expected an expression."), "no_prefix", p1.previous.type)
          [] p2 # p2 -> p2
          [] OTHER -> p3

parse_precedence(p, precedence) ==
    LET p1 == note_event(Call("advance", <<p>>), "parse_precedence", precedence)
        prefix_rule == get_rule(p1.previous.type).prefix
        can_assign == precedence <= PREC_ASSIGNMENT
        p2 == call_rule(prefix_rule, note_event(p1, "prefix", p1.previous.type), can_assign)
        p3 == infix_loop(p2, precedence, can_assign)
        p4 == IF can_assign THEN Call("match", <<p3, "TOKEN_EQUAL">>) ELSE [p3 EXCEPT !.ret = FALSE]
    IN  CASE p1 # p1 -> p1
          [] prefix_rule = "NULL" ->
                note_event(error(p1, "Expected an expression."), "no_prefix", p1.previous.type)
          [] p2 # p2 -> p2
          [] p3 # p3 -> p3
          [] p4.ret -> error(p4, "Invalid assignment target.")
          [] OTHER -> p4

expression(p) == Call("parse_precedence", <<p, PREC_ASSIGNMENT>>)

\* The condition of the while loop of block.
block_condition(p) == ~check(p, "TOKEN_RIGHT_BRACE") /\ ~check(p, "TOKEN_EOF") /\ ~p.crashed

block(p) ==
    Call("consume", <<while_loop("block_condition", "declaration", p, 1),
                      "TOKEN_RIGHT_BRACE", "Expected ')' after block.">>)

var_declaration(p) ==
    LET p1 == parse_variable(p, "Expected a variable name.")
        global == p1.ret
        p2 == Call("match", <<p1, "TOKEN_EQUAL">>)
        p3 == IF p2.ret THEN Call("expression", <<p2>>) ELSE emit_byte(p2, OP_NIL)
        p4 == Call("consume", <<p3, "TOKEN_SEMICOLON", "Expected ';' after variable declaration.">>)
    IN  CASE p1 # p1 -> p1
          [] p2 # p2 -> p2
          [] p3 # p3 -> p3
          [] p4 # p4 -> p4
          [] OTHER -> define_variable(p4, global)

print_statement(p) ==
    LET p1 == Call("expression", <<p>>)
        p2 == Call("consume", <<p1, "TOKEN_SEMICOLON", "Expected ';' after value.">>)
    IN  CASE p1 # p1 -> p1
          [] p2 # p2 -> p2
          [] OTHER -> emit_byte(p2, OP_PRINT)

while_statement(p) ==
    LET loopstart == Len(p.chunk.code)
        c1 == Call("consume", <<p, "TOKEN_LEFT_PAREN", "Expected '!' after 'while'.">>)
        c2 == Call("expression", <<c1>>)
        p1 == Call("consume", <<c2, "TOKEN_RIGHT_PAREN", "Expected ')' after condition.">>)
        p2 == emit_jump(p1, OP_JUMP_IF_FALSE)
        exitjump == p2.ret
        p3 == Call("statement", <<emit_byte(p2, OP_POP)>>)
    IN  CASE c1 # c1 -> c1
          [] c2 # c2 -> c2
          [] p1 # p1 -> p1
          [] p3 # p3 -> p3
          [] OTHER -> emit_byte(patch_jump(emit_loop(p3, loopstart), exitjump), OP_POP)

expression_statement(p) ==
    LET p1 == Call("expression", <<p>>)
        p2 == Call("consume", <<p1, "TOKEN_SEMICOLON", "Expected ';' after value.">>)
    IN  CASE p1 # p1 -> p1
          [] p2 # p2 -> p2
          [] OTHER -> emit_byte(p2, OP_POP)

\* for_statement from beginscope() to the end of its first clause.
for_initializer(p) ==
    LET p1 == Call("consume", <<beginscope(p), "TOKEN_LEFT_PAREN", "Expected '(' after 'for'.">>)
        m1 == Call("match", <<p1, "TOKEN_SEMICOLON">>)
        m2 == Call("match", <<m1, "TOKEN_VAR">>)
    IN  CASE p1 # p1 -> p1
          [] m1.ret -> m1
          [] m2.ret -> note_statement(Call("var_declaration", <<m2>>), "var_local",
                                      Len(m2.chunk.code))
          [] OTHER -> Call("expression_statement", <<m2>>)

\* The second clause; p.ret is exitjump.
for_condition(p) ==
    LET m3 == Call("match", <<p, "TOKEN_SEMICOLON">>)
        c0 == Call("expression", <<m3>>)
        c1 == emit_jump(Call("consume", <<c0, "TOKEN_SEMICOLON", "Expected ';' after expression.">>),
                        OP_JUMP_IF_FALSE)
    IN  CASE m3.ret -> [m3 EXCEPT !.ret = -1]
          [] c0 # c0 -> c0
          [] OTHER -> [emit_byte(c1, OP_POP) EXCEPT !.ret = c1.ret]

\* The third clause; p.ret is loopstart after it.
for_increment(p, loopstart) ==
    LET m4 == Call("match", <<p, "TOKEN_RIGHT_PAREN">>)
        i1 == emit_jump(m4, OP_JUMP)
        bodyjump == i1.ret
        incrementstart == Len(i1.chunk.code)
        i0 == Call("expression", <<i1>>)
        i2 == Call("consume", <<emit_byte(i0, OP_POP),
                      "TOKEN_RIGHT_PAREN", "Expected ')' after for clauses.">>)
    IN  CASE m4.ret -> [m4 EXCEPT !.ret = loopstart]
          [] i0 # i0 -> i0
          [] OTHER -> [patch_jump(emit_loop(i2, loopstart), bodyjump) EXCEPT !.ret = incrementstart]

\* The loop body and what follows it.
for_body(p, loopstart, exitjump) ==
    LET s1 == Call("statement", <<p>>)
        p5 == emit_loop(s1, loopstart)
    IN  CASE s1 # s1 -> s1
          [] exitjump # -1 -> endscope(emit_byte(patch_jump(p5, exitjump), OP_POP))
          [] OTHER -> endscope(p5)

for_statement(p) ==
    LET p2 == for_initializer(p)
        loopstart == Len(p2.chunk.code)
        p3 == for_condition(p2)
        exitjump == p3.ret
        p4 == for_increment(p3, loopstart)
    IN  CASE p2 # p2 -> p2
          [] p3 # p3 -> p3
          [] p4 # p4 -> p4
          [] OTHER -> for_body(p4, p4.ret, exitjump)

if_statement(p) ==
    LET c1 == Call("consume", <<p, "TOKEN_LEFT_PAREN", "Expected '(' after 'if'.">>)
        c2 == Call("expression", <<c1>>)
        p1 == Call("consume", <<c2, "TOKEN_RIGHT_PAREN", "Expected ')' after condition.">>)
        p2 == emit_jump(p1, OP_JUMP_IF_FALSE)
        thenjump == p2.ret
        s1 == Call("statement", <<emit_byte(p2, OP_POP)>>)
        p3 == emit_jump(s1, OP_JUMP)
        elsejump == p3.ret
        p4 == Call("match", <<emit_byte(patch_jump(p3, thenjump), OP_POP), "TOKEN_ELSE">>)
        p5 == IF p4.ret THEN Call("statement", <<p4>>) ELSE p4
    IN  CASE c1 # c1 -> c1
          [] c2 # c2 -> c2
          [] p1 # p1 -> p1
          [] s1 # s1 -> s1
          [] p4 # p4 -> p4
          [] p5 # p5 -> p5
          [] OTHER -> patch_jump(p5, elsejump)

statement(p) ==
    LET start == Len(p.chunk.code)
        m1 == Call("match", <<p, "TOKEN_PRINT">>)
        m2 == Call("match", <<m1, "TOKEN_IF">>)
        m3 == Call("match", <<m2, "TOKEN_WHILE">>)
        m4 == Call("match", <<m3, "TOKEN_FOR">>)
        m5 == Call("match", <<m4, "TOKEN_LEFT_BRACE">>)
        p1 == CASE m1.ret -> Call("print_statement", <<m1>>)
                [] m2.ret -> Call("if_statement", <<m2>>)
                [] m3.ret -> Call("while_statement", <<m3>>)
                [] m4.ret -> Call("for_statement", <<m4>>)
                [] m5.ret -> Call("block", <<beginscope(m5)>>)
                [] OTHER -> Call("expression_statement", <<m5>>)
    IN  CASE p1 # p1 -> p1
          [] m1.ret -> note_statement(p1, "print", start)
          [] m2.ret -> note_statement(p1, "if", start)
          [] m3.ret -> note_statement(p1, "while", start)
          [] m4.ret -> note_statement(p1, "for", start)
          [] m5.ret -> note_statement(endscope(p1), "block", start)
          [] OTHER -> note_statement(p1, "expression", start)

RECURSIVE synchronize_loop(_)
synchronize_loop(p) ==
    IF p.current.type = "TOKEN_EOF" THEN p
    ELSE IF p.previous.type = "TOKEN_SEMICOLON" THEN p
    ELSE IF p.current.type \in {"TOKEN_CLASS", "TOKEN_FUN", "TOKEN_VAR", "TOKEN_FOR",
                                "TOKEN_IF", "TOKEN_WHILE", "TOKEN_PRINT", "TOKEN_RETURN"}
    THEN p
    ELSE synchronize_loop(note_event(Call("advance", <<p>>), "skipped", Remaining(p)))

synchronize(p) ==
    note_event(synchronize_loop(note_event([p EXCEPT !.panicmode = FALSE],
                                           "synchronize", p.panicmode)),
               "synchronized", p.panicmode)

\* declaration that reports the first ')' it meets and reads no token.
declaration_leaves_token(p) ==
    LET start == Len(p.chunk.code)
        m1 == Call("match", <<p, "TOKEN_VAR">>)
        p1 == IF m1.ret
              THEN note_statement(Call("var_declaration", <<m1>>),
                                  IF p.scopedepth = 0 THEN "var_global" ELSE "var_local", start)
              ELSE IF check(m1, "TOKEN_RIGHT_PAREN") /\ ~m1.haderror
              THEN error_at_current(m1, "Expected an expression.")
              ELSE Call("statement", <<m1>>)
    IN  note_event(IF p1.panicmode THEN synchronize(p1) ELSE p1, "declared", Remaining(p))

declaration(p) ==
    LET start == Len(p.chunk.code)
        m1 == Call("match", <<p, "TOKEN_VAR">>)
        p1 == IF m1.ret
              THEN note_statement(Call("var_declaration", <<m1>>),
                                  IF p.scopedepth = 0 THEN "var_global" ELSE "var_local", start)
              ELSE Call("statement", <<m1>>)
    IN  note_event(IF p1.panicmode THEN synchronize(p1) ELSE p1, "declared", Remaining(p))

\* while (!match(TOKEN_EOF)) declaration(): a match that fails is the check
\* alone, so that the failing matches are the condition of the loop and the
\* one that succeeds follows it.
compile_condition(p) == ~check(p, "TOKEN_EOF") /\ ~p.crashed

compile_loop(p) ==
    LET p1 == while_loop("compile_condition", "declaration", p, 1)
    IN  IF p1.crashed THEN p1 ELSE Call("match", <<p1, "TOKEN_EOF">>)

init_compiler(p) == [p EXCEPT !.locals = <<>>, !.scopedepth = 0]

\* The parser, the compiler and the scanner as compile sets them before its first
\* advance, with the history fields empty.
new_parser(m, source, chunk) ==
    [scanner |-> scanner_init(source),
     current |-> zero_token, previous |-> zero_token,
     haderror |-> FALSE, panicmode |-> FALSE,
     chunk |-> chunk, locals |-> <<>>, scopedepth |-> 0,
     heap |-> m.heap, objects |-> m.objects, strings |-> m.strings,
     ret |-> NULL, err |-> <<>>, stmts |-> <<>>, crashed |-> FALSE, unready |-> 0,
     duplicates |-> 0, peak |-> 0, trace |-> <<>>]

\* compile(source, chunk) with the vm's heap, object list and strings in m:
\* the fields of the result are the parser, the compiler, the chunk and m's,
\* and ret is what compile returns.
compile_ignores_haderror(m, source, chunk) ==
    LET p0 == new_parser(m, source, chunk)
        p1 == Call("compile_loop", <<Call("advance", <<init_compiler(init_scanner(p0, source))>>)>>)
        p2 == end_compiler(p1)
    IN  CASE p1 # p1 -> p1
          [] OTHER -> [p2 EXCEPT !.ret = TRUE]

compile(m, source, chunk) ==
    LET p0 == new_parser(m, source, chunk)
        p1 == Call("compile_loop", <<Call("advance", <<init_compiler(init_scanner(p0, source))>>)>>)
        p2 == end_compiler(p1)
    IN  CASE p1 # p1 -> p1
          [] OTHER -> [p2 EXCEPT !.ret = ~p2.haderror]


\* C evaluates the arguments of a call before the call, which Len(a) does.
Call(fn, a) ==
    CASE Len(a) = 0 -> a
      [] fn = "scan_token" -> scan_token(a[1])
      [] fn = "advance" -> advance(a[1])
      [] fn = "consume" -> consume(a[1], a[2], a[3])
      [] fn = "match" -> match(a[1], a[2])
      [] fn = "copy_string" -> copy_string(a[1], a[2], a[3])
      [] fn = "identifier_constant" -> identifier_constant(a[1], a[2])
      [] fn = "named_variable" -> named_variable(a[1], a[2], a[3])
      [] fn = "parse_precedence" -> parse_precedence(a[1], a[2])
      [] fn = "expression" -> expression(a[1])
      [] fn = "grouping" -> grouping(a[1], a[2])
      [] fn = "unary" -> unary(a[1], a[2])
      [] fn = "binary" -> binary(a[1], a[2])
      [] fn = "variable" -> variable(a[1], a[2])
      [] fn = "string" -> string(a[1], a[2])
      [] fn = "number" -> number(a[1], a[2])
      [] fn = "literal" -> literal(a[1], a[2])
      [] fn = "and_" -> and_(a[1], a[2])
      [] fn = "or_" -> or_(a[1], a[2])
      [] fn = "statement" -> statement(a[1])
      [] fn = "declaration" -> declaration(a[1])
      [] fn = "block" -> block(a[1])
      [] fn = "block_condition" -> block_condition(a[1])
      [] fn = "compile_condition" -> compile_condition(a[1])
      [] fn = "declare_condition" -> declare_condition(a[1])
      [] fn = "declare_body" -> declare_body(a[1])
      [] fn = "endscope_condition" -> endscope_condition(a[1])
      [] fn = "endscope_body" -> endscope_body(a[1])
      [] fn = "var_declaration" -> var_declaration(a[1])
      [] fn = "print_statement" -> print_statement(a[1])
      [] fn = "while_statement" -> while_statement(a[1])
      [] fn = "expression_statement" -> expression_statement(a[1])
      [] fn = "for_statement" -> for_statement(a[1])
      [] fn = "if_statement" -> if_statement(a[1])
      [] fn = "compile_loop" -> compile_loop(a[1])
      [] fn = "compile" -> compile(a[1], a[2], a[3])

(***************************************************************************)
(* vm.c: the dispatch loop.  The functions work on one record w: the       *)
(* fields of the global vm, the heap, what was written to stdout and       *)
(* stderr, the value a C function returns (ret) and what run_vm returns    *)
(* (result, "running" while the loop goes on).  w.undefined is set by an   *)
(* access outside the stack array, and w.errtop is history: the stack      *)
(* height when runtime_error_vm was entered.                               *)
(***************************************************************************)
INTERPRET_OK == "INTERPRET_OK"
INTERPRET_COMPILE_ERROR == "INTERPRET_COMPILE_ERROR"
INTERPRET_RUNTIME_ERROR == "INTERPRET_RUNTIME_ERROR"

\* vm = {0}: what a slot of the stack holds before it is written.
zero_value == make_loxbool(FALSE)

\* reset_stack_vm that leaves the stack as the failing instruction found it.
runtime_error_vm_keeps_stack(w, message) ==
    [w EXCEPT !.err = Append(Append(@, [message |-> message]),
                             [line |-> w.chunk.lines[w.ip], at |-> "script"]),
              !.errtop = w.stacktop]

runtime_error_vm(w, message) ==
    [w EXCEPT !.err = Append(Append(@, [message |-> message]),
                             [line |-> w.chunk.lines[w.ip], at |-> "script"]),
              !.errtop = w.stacktop,
              !.stacktop = 0]

push_vm(w, value) ==
    IF w.stacktop < 0 \/ w.stacktop >= STACK_MAX
    THEN [w EXCEPT !.undefined = TRUE, !.stacktop = @ + 1]
    ELSE [w EXCEPT !.stack = IF w.stacktop < Len(@) THEN [@ EXCEPT ![w.stacktop + 1] = value]
                             ELSE Append(@, value),
                   !.stacktop = @ + 1]

\* vm.stack[slot]
StackSlot(w, slot) == IF slot < Len(w.stack) THEN w.stack[slot + 1] ELSE zero_value

pop_vm(w) ==
    IF w.stacktop < 1 \/ w.stacktop > STACK_MAX
    THEN [w EXCEPT !.undefined = TRUE, !.stacktop = @ - 1, !.ret = zero_value]
    ELSE [w EXCEPT !.stacktop = @ - 1, !.ret = StackSlot(w, w.stacktop - 1)]

peek_vm(w, distance) ==
    LET slot == w.stacktop - 1 - distance
    IN  IF slot < 0 \/ slot >= STACK_MAX
        THEN [w EXCEPT !.undefined = TRUE, !.ret = zero_value]
        ELSE [w EXCEPT !.ret = StackSlot(w, slot)]

\* isfalsy that takes the number 0 for false, as C does.
isfalsy_zero(value) ==
    \/ is_loxnil(value)
    \/ (is_loxbool(value) /\ ~as_loxbool(value))
    \/ (is_loxnumber(value) /\ as_loxnumber(value)[1] = 0)

isfalsy(value) == is_loxnil(value) \/ (is_loxbool(value) /\ ~as_loxbool(value))

concatenate(w) ==
    LET w1 == pop_vm(w)
        rhs == as_loxobject(w1.ret)
        w2 == pop_vm(w1)
        lhs == as_loxobject(w2.ret)
        length == w2.heap[lhs].length + w2.heap[rhs].length
        h1 == allocate_chars(w2.heap, StringChars(w2.heap, lhs) \o StringChars(w2.heap, rhs))
        w3 == take_string([w2 EXCEPT !.heap = h1], Len(h1), length)
    IN  push_vm(w3, make_loxobject(w3.ret))

read_byte(w) == [w EXCEPT !.ip = @ + 1, !.ret = w.chunk.code[w.ip + 1]]

read_constant(w) ==
    LET w1 == read_byte(w)
    IN  [w1 EXCEPT !.ret = w1.chunk.constants.values[w1.ret + 1]]

read_short(w) ==
    [w EXCEPT !.ip = @ + 2,
              !.ret = ((w.chunk.code[w.ip + 1] * 256) + w.chunk.code[w.ip + 2]) % 65536]

read_string(w) ==
    LET w1 == read_constant(w)
    IN  [w1 EXCEPT !.ret = as_loxobject(w1.ret)]

return_from_run(w, res) == [w EXCEPT !.result = res]

\* What `lhs op rhs` is for the operator of an opcode.
BinaryOperator(op, lhs, rhs) ==
    CASE op = OP_GREATER -> make_loxbool(NumGreater(lhs, rhs))
      [] op = OP_LESS -> make_loxbool(NumLess(lhs, rhs))
      [] op = OP_SUB -> make_loxnumber(NumSub(lhs, rhs))
      [] op = OP_MUL -> make_loxnumber(NumMul(lhs, rhs))
      [] op = OP_DIV -> make_loxnumber(NumDiv(lhs, rhs))

\* make_binary_op that takes the operands in the order they are popped.
make_binary_op_swapped(w, op) ==
    LET p0 == peek_vm(w, 0)
        p1 == peek_vm(p0, 1)
    IN  IF p0.undefined THEN p0
        ELSE IF ~is_loxnumber(p0.ret)
        THEN return_from_run(runtime_error_vm(p0, "Operands must be numbers."),
                             INTERPRET_RUNTIME_ERROR)
        ELSE IF p1.undefined THEN p1
        ELSE IF ~is_loxnumber(p1.ret)
        THEN return_from_run(runtime_error_vm(p1, "Operands must be numbers."),
                             INTERPRET_RUNTIME_ERROR)
        ELSE LET w1 == pop_vm(p1)
                 lhs == as_loxnumber(w1.ret)
                 w2 == pop_vm(w1)
                 rhs == as_loxnumber(w2.ret)
             IN  push_vm(w2, BinaryOperator(op, lhs, rhs))

make_binary_op(w, op) ==
    LET p0 == peek_vm(w, 0)
        p1 == peek_vm(p0, 1)
    IN  IF p0.undefined THEN p0
        ELSE IF ~is_loxnumber(p0.ret)
        THEN return_from_run(runtime_error_vm(p0, "Operands must be numbers."),
                             INTERPRET_RUNTIME_ERROR)
        ELSE IF p1.undefined THEN p1
        ELSE IF ~is_loxnumber(p1.ret)
        THEN return_from_run(runtime_error_vm(p1, "Operands must be numbers."),
                             INTERPRET_RUNTIME_ERROR)
        ELSE LET w1 == pop_vm(p1)
                 rhs == as_loxnumber(w1.ret)
                 w2 == pop_vm(w1)
                 lhs == as_loxnumber(w2.ret)
             IN  push_vm(w2, BinaryOperator(op, lhs, rhs))

\* The cases of the switch of run_vm, after `byte = read_byte()`.
op_constant(w) ==
    LET w1 == read_constant(w)
    IN  push_vm(w1, w1.ret)

\* OP_DEFINE_GLOBAL that leaves the value on the stack.
op_define_global_no_pop(w) ==
    LET w1 == read_string(w)
        name == w1.ret
        w2 == peek_vm(w1, 0)
    IN  IF w2.undefined THEN w2
        ELSE [w2 EXCEPT !.globals = table_set(w2.heap, @, name, w2.ret).table]

op_define_global(w) ==
    LET w1 == read_string(w)
        name == w1.ret
        w2 == peek_vm(w1, 0)
    IN  IF w2.undefined THEN w2
        ELSE pop_vm([w2 EXCEPT !.globals = table_set(w2.heap, @, name, w2.ret).table])

UndefinedVariable(w, name) == <<"Undefined variable '", StringChars(w.heap, name), "'.">>

op_get_global(w) ==
    LET w1 == read_string(w)
        name == w1.ret
        r == table_get(w1.heap, w1.globals, name, zero_value)
    IN  IF ~r.ret
        THEN return_from_run(runtime_error_vm(w1, UndefinedVariable(w1, name)),
                             INTERPRET_RUNTIME_ERROR)
        ELSE push_vm(w1, r.out)

\* OP_SET_GLOBAL without the table_delete of the key it has just inserted.
op_set_global_keeps_key(w) ==
    LET w1 == read_string(w)
        name == w1.ret
        w2 == peek_vm(w1, 0)
        r == table_set(w2.heap, w2.globals, name, w2.ret)
        w3 == [w2 EXCEPT !.globals = r.table]
    IN  IF w2.undefined THEN w2
        ELSE IF r.ret
        THEN return_from_run(runtime_error_vm(w3, UndefinedVariable(w3, name)),
                             INTERPRET_RUNTIME_ERROR)
        ELSE w3

op_set_global(w) ==
    LET w1 == read_string(w)
        name == w1.ret
        w2 == peek_vm(w1, 0)
        r == table_set(w2.heap, w2.globals, name, w2.ret)
        w3 == [w2 EXCEPT !.globals = r.table]
        w4 == [w3 EXCEPT !.globals = table_delete(w3.heap, @, name).table]
    IN  IF w2.undefined THEN w2
        ELSE IF r.ret
        THEN return_from_run(runtime_error_vm(w4, UndefinedVariable(w4, name)),
                             INTERPRET_RUNTIME_ERROR)
        ELSE w3

\* OP_GET_LOCAL that counts the slot from the top of the stack.
op_get_local_from_top(w) ==
    LET w1 == read_byte(w)
    IN  push_vm(w1, StackSlot(w1, w1.stacktop - 1 - w1.ret))

op_get_local(w) ==
    LET w1 == read_byte(w)
    IN  push_vm(w1, StackSlot(w1, w1.ret))

op_set_local(w) ==
    LET w1 == read_byte(w)
        slot == w1.ret
        w2 == peek_vm(w1, 0)
    IN  IF w2.undefined THEN w2
        ELSE [w2 EXCEPT !.stack = [i \in 1..(IF slot < Len(@) THEN Len(@) ELSE slot + 1) |->
                                      IF i = slot + 1 THEN w2.ret
                                      ELSE IF i <= Len(@) THEN @[i] ELSE zero_value]]

op_pop(w) == pop_vm(w)
op_nil(w) == push_vm(w, make_loxnil)
op_true(w) == push_vm(w, make_loxbool(TRUE))
op_false(w) == push_vm(w, make_loxbool(FALSE))

op_equal(w) ==
    LET w1 == pop_vm(w)
        rhs == w1.ret
        w2 == pop_vm(w1)
        lhs == w2.ret
    IN  IF w2.undefined THEN w2
        ELSE push_vm(w2, make_loxbool(values_equal(w2.heap, lhs, rhs)))

is_loxstring(h, value) == is_loxobject(value) /\ h[as_loxobject(value)].type = OBJ_STRING

op_add(w) ==
    LET p0 == peek_vm(w, 0)
        p1 == peek_vm(p0, 1)
    IN  IF p0.undefined THEN p0
        ELSE IF ~is_loxstring(w.heap, p0.ret) /\ ~is_loxnumber(p0.ret)
        THEN return_from_run(runtime_error_vm(w, "Operands must be 2 numbers or 2 strings."),
                             INTERPRET_RUNTIME_ERROR)
        ELSE IF p1.undefined THEN p1
        ELSE IF is_loxstring(w.heap, p0.ret) /\ is_loxstring(w.heap, p1.ret) THEN concatenate(w)
        ELSE IF is_loxnumber(p0.ret) /\ is_loxnumber(p1.ret)
        THEN LET w1 == pop_vm(w)
                 rhs == as_loxnumber(w1.ret)
                 w2 == pop_vm(w1)
                 lhs == as_loxnumber(w2.ret)
             IN  push_vm(w2, make_loxnumber(NumAdd(lhs, rhs)))
        ELSE return_from_run(runtime_error_vm(w, "Operands must be 2 numbers or 2 strings."),
                             INTERPRET_RUNTIME_ERROR)

op_not(w) ==
    LET w1 == pop_vm(w)
    IN  IF w1.undefined THEN w1 ELSE push_vm(w1, make_loxbool(isfalsy(w1.ret)))

\* OP_UNM that pops its operand before it checks it.
op_unm_pops_first(w) ==
    LET w1 == pop_vm(w)
    IN  IF w1.undefined THEN w1
        ELSE IF ~is_loxnumber(w1.ret)
        THEN return_from_run(runtime_error_vm(w1, "Operand must be a number."),
                             INTERPRET_RUNTIME_ERROR)
        ELSE push_vm(w1, make_loxnumber(NumNeg(as_loxnumber(w1.ret))))

op_unm(w) ==
    LET p0 == peek_vm(w, 0)
    IN  IF p0.undefined THEN p0
        ELSE IF ~is_loxnumber(p0.ret)
        THEN return_from_run(runtime_error_vm(w, "Operand must be a number."),
                             INTERPRET_RUNTIME_ERROR)
        ELSE LET w1 == pop_vm(w)
             IN  push_vm(w1, make_loxnumber(NumNeg(as_loxnumber(w1.ret))))

\* What print_value writes: the characters of a string, the word for nil
\* and the booleans; a number stands for its "%g" rendering.
print_value(h, value) ==
    CASE value.type = VAL_BOOL -> IF as_loxbool(value) THEN "true" ELSE "false"
      [] value.type = VAL_NIL -> "nil"
      [] value.type = VAL_NUMBER -> as_loxnumber(value)
      [] value.type = VAL_OBJECT -> StringChars(h, as_loxobject(value))

op_print(w) ==
    LET w1 == pop_vm(w)
    IN  IF w1.undefined THEN w1
        ELSE [w1 EXCEPT !.out = Append(Append(@, print_value(w1.heap, w1.ret)), "\n")]

op_jump(w) ==
    LET w1 == read_short(w)
    IN  [w1 EXCEPT !.ip = @ + w1.ret]

op_jump_if_false(w) ==
    LET w1 == read_short(w)
        offset == w1.ret
        w2 == peek_vm(w1, 0)
    IN  IF w2.undefined THEN w2
        ELSE IF isfalsy(w2.ret) THEN [w2 EXCEPT !.ip = @ + offset] ELSE w2

op_loop(w) ==
    LET w1 == read_short(w)
    IN  [w1 EXCEPT !.ip = @ - w1.ret]

op_ret(w) == return_from_run(w, INTERPRET_OK)

free_chunk(chunk) == empty_chunk
init_chunk == empty_chunk


(***************************************************************************)
(* The table specification: one LoxTable, tbl, driven through table_set,   *)
(* table_delete and table_get with interned keys.  The keys are interned   *)
(* by copy_string before the first call.  Some runs start from the empty   *)
(* table, the others from the table after table_set of the four filler     *)
(* keys, so that the rehash from 8 to 16 slots is within reach.            *)
(***************************************************************************)
NActive == 3

\* 'a', 'i', 'q', 'y' hash to slot 4 of 8; 'a', 'q' to slot 12 and 'i', 'y' to slot 4 of 16.
ActiveNames == <<<<"a">>, <<"i">>, <<"q">>, <<"y">>, <<"a", "a">>>>
\* 'b', 'j', 'r', 'z' hash to slot 5 of 8.
FillNames == <<<<"b">>, <<"j">>, <<"r">>, <<"z">>>>

KeyNames == SubSeq(ActiveNames, 1, NActive) \o FillNames

RECURSIVE InternAll(_, _, _)
InternAll(m, names, i) ==
    IF i > Len(names) THEN m
    ELSE InternAll(copy_string(m, names[i], Len(names[i])), names, i + 1)

TableMem == InternAll(Mem(init_vm, <<>>), KeyNames, 1)

\* The LoxString pointer copy_string returned for a name.
KeyOf(name) == table_findstring(TableMem.heap, TableMem.strings, name, Len(name),
                                hash_string(name, Len(name)))
ActiveKeys == {KeyOf(ActiveNames[i]) : i \in 1..NActive}
FillKeys == {KeyOf(FillNames[i]) : i \in 1..Len(FillNames)}
AllKeys == ActiveKeys \cup FillKeys

TableValues == {make_loxnil, make_loxbool(TRUE)}

RECURSIVE Prefill(_, _, _)
Prefill(h, t, i) ==
    IF i > Len(FillNames) THEN t
    ELSE Prefill(h, table_set(h, t, KeyOf(FillNames[i]), make_loxnumber(<<1, 1>>)).table, i + 1)

Absent == [present |-> FALSE]
Present(v) == [present |-> TRUE, value |-> v]

NoCall == [op |-> "none"]

\* Whether a slot is empty, a tombstone or live.
SlotState(e) ==
    IF e.key # NULL THEN "live"
    ELSE IF is_loxnil(e.value) THEN "empty"
    ELSE "tombstone"

\* The state of the slot table_set writes to: the one find_entry picks after the rehash, if any.
SlotChosen(h, self, key) ==
    LET grown == IF over_max_load(self.count, self.capacity)
                 THEN adjust_capacity(h, self, grow_capacity(self.capacity))
                 ELSE self
        entry == find_entry(h, grown.entries, grown.capacity, key)
    IN  IF entry = Hang THEN "none" ELSE SlotState(grown.entries[entry])

IdleRest ==
    /\ vm = WithMem(init_vm, TableMem)
    /\ heap = TableMem.heap
    /\ out = <<>>
    /\ err = <<>>
    /\ pc = "idle"
    /\ result = "none"
    /\ hist = <<>>

TableInit ==
    /\ IdleRest
    /\ last = NoCall
    /\ \/ /\ tbl = init_table
          /\ amap = [k \in AllKeys |-> Absent]
       \/ /\ tbl = Prefill(TableMem.heap, init_table, 1)
          /\ amap = [k \in AllKeys |->
                        IF k \in FillKeys THEN Present(make_loxnumber(<<1, 1>>)) ELSE Absent]

TableSet(k, v) ==
    LET r == table_set(heap, tbl, k, v)
    IN  /\ tbl' = r.table
        /\ amap' = [amap EXCEPT ![k] = Present(v)]
        /\ last' = [op |-> "table_set", key |-> k, value |-> v, ret |-> r.ret,
                    found |-> table_get(heap, tbl, k, make_loxnil).ret,
                    slot |-> SlotChosen(heap, tbl, k),
                    count |-> tbl.count, capacity |-> tbl.capacity]
        /\ UNCHANGED <<vm, heap, out, err, pc, result, hist>>

TableDelete(k) ==
    LET r == table_delete(heap, tbl, k)
    IN  /\ tbl' = r.table
        /\ amap' = [amap EXCEPT ![k] = Absent]
        /\ last' = [op |-> "table_delete", key |-> k, ret |-> r.ret,
                    found |-> table_get(heap, tbl, k, make_loxnil).ret,
                    count |-> tbl.count, capacity |-> tbl.capacity]
        /\ UNCHANGED <<vm, heap, out, err, pc, result, hist>>

\* The caller's variable holds o before the call.
TableGet(k, o) ==
    LET r == table_get(heap, tbl, k, o)
    IN  /\ last' = [op |-> "table_get", key |-> k, ret |-> r.ret,
                    before |-> o, out |-> r.out]
        /\ UNCHANGED <<tbl, amap, vm, heap, out, err, pc, result, hist>>

TableNext ==
    \/ \E k \in ActiveKeys, v \in TableValues : TableSet(k, v)
    \/ \E k \in ActiveKeys : TableDelete(k)
    \/ \E k \in AllKeys, o \in TableValues : TableGet(k, o)

SpecTable == TableInit /\ [][TableNext]_vars

\* table_add_all(&vm.globals, &tbl) with vm.globals holding d before the call; a
\* call that was undefined may have killed the process.
DstTables == {init_table, Prefill(TableMem.heap, init_table, 1)}

TableAddAll(d) ==
    LET r == table_add_all(heap, d, tbl)
    IN  /\ pc = "idle"
        /\ vm' = [vm EXCEPT !.globals = r.table]
        /\ pc' \in (IF r.undefined THEN {"crashed", "undefined"} ELSE {"idle"})
        /\ last' = [op |-> "table_add_all", dst |-> d, src |-> tbl]
        /\ UNCHANGED <<tbl, amap, heap, out, err, result, hist>>

AddAllNext ==
    \/ pc = "idle" /\ TableNext
    \/ \E d \in DstTables : TableAddAll(d)

SpecAddAll == TableInit /\ [][AddAllNext]_vars

SameValue(a, b) ==
    /\ a.type = b.type
    /\ CASE a.type = VAL_BOOL -> a.boolean = b.boolean
         [] a.type = VAL_NUMBER -> a.number = b.number
         [] a.type = VAL_OBJECT -> a.object = b.object
         [] OTHER -> TRUE

HasTombstone(t) == \E i \in 1..t.capacity : SlotState(t.entries[i]) = "tombstone"

\* C1: the table refines the abstract map: in every reachable table, for every key K and
\* whatever the caller's variable holds, table_get(K) returns found with the value of the
\* most recent table_set(K, V) when no table_delete(K) followed it, and otherwise returns
\* not-found and leaves the caller's variable as it was; the result the last table_get
\* call returned is the one the map gives.
C1_TableRefinesMap ==
    /\ \A k \in AllKeys, o \in TableValues :
          LET r == table_get(heap, tbl, k, o)
          IN  IF amap[k].present
              THEN r.ret = TRUE /\ SameValue(r.out, amap[k].value)
              ELSE r.ret = FALSE /\ SameValue(r.out, o)
    /\ last.op = "table_get" =>
          IF amap[last.key].present
          THEN last.ret = TRUE /\ SameValue(last.out, amap[last.key].value)
          ELSE last.ret = FALSE /\ SameValue(last.out, last.before)

\* A get that finds its key away from its home slot in a rehashed table that holds a tombstone.
C1_Witness ==
    /\ last.op = "table_get"
    /\ last.ret = TRUE
    /\ tbl.capacity = 16
    /\ HasTombstone(tbl)
    /\ tbl.entries[U32Mod(heap[last.key].hash, tbl.capacity) + 1].key # last.key

LiveSlots(t) == {i \in 1..t.capacity : t.entries[i].key # NULL}

\* The key-to-value pairs of a table.
LivePairs(t) == {<<t.entries[i].key, t.entries[i].value>> : i \in LiveSlots(t)}

\* The table after the rehash table_set would do on tbl.
Rehashed == adjust_capacity(heap, tbl, grow_capacity(tbl.capacity))

\* C30: whenever the table is at the load at which the next table_set rehashes it,
\* adjust_capacity to the grown capacity gives a table with exactly the live
\* key-to-value pairs of the old one, each key once, no tombstone, and count equal to
\* the number of live entries; table_get finds in it every key it found before, with
\* the same value, and no other key.  A table_set that rehashed leaves a table
\* without tombstone whose count is its number of live entries.
C30_RehashPreserves ==
    /\ over_max_load(tbl.count, tbl.capacity) =>
          /\ Rehashed.capacity = grow_capacity(tbl.capacity)
          /\ Len(Rehashed.entries) = Rehashed.capacity
          /\ LivePairs(Rehashed) = LivePairs(tbl)
          /\ Cardinality(LiveSlots(Rehashed)) = Cardinality(LiveSlots(tbl))
          /\ ~HasTombstone(Rehashed)
          /\ Rehashed.count = Cardinality(LiveSlots(Rehashed))
          /\ \A k \in AllKeys, o \in TableValues :
                LET before == table_get(heap, tbl, k, o)
                    after == table_get(heap, Rehashed, k, o)
                IN  /\ after.ret = before.ret
                    /\ SameValue(after.out, before.out)
    /\ (last.op = "table_set" /\ tbl.capacity # last.capacity) =>
          /\ tbl.capacity = grow_capacity(last.capacity)
          /\ ~HasTombstone(tbl)
          /\ tbl.count = Cardinality(LiveSlots(tbl))

\* A table_set of an absent key has rehashed a table of 8 slots that held a tombstone:
\* the count after it is the count before it.
C30_Witness ==
    /\ last.op = "table_set"
    /\ last.capacity = 8
    /\ tbl.capacity = 16
    /\ last.found = FALSE
    /\ tbl.count = last.count

\* The slots of a table that hold a tombstone.
TombstoneSlots(t) == {i \in 1..t.capacity : SlotState(t.entries[i]) = "tombstone"}

\* 0, 8, 16, 32, ...: what grow_capacity gives from 0.
RECURSIVE IsGrownCapacity(_, _)
IsGrownCapacity(capacity, c) ==
    IF c >= capacity THEN c = capacity ELSE IsGrownCapacity(capacity, grow_capacity(c))

\* C31: in every table reached by table_set and table_delete calls, count is the number
\* of live entries plus the number of tombstones and 4 * count <= 3 * capacity;
\* capacity is 0 or 8 * 2^k; a step changes capacity only in table_set, only when
\* count + 1 > 0.75 * capacity held before the call, and only to grow_capacity of it.
C31_CountAndCapacity ==
    /\ [](/\ tbl.count = Cardinality(LiveSlots(tbl)) + Cardinality(TombstoneSlots(tbl))
          /\ 4 * tbl.count <= 3 * tbl.capacity
          /\ Len(tbl.entries) = tbl.capacity
          /\ IsGrownCapacity(tbl.capacity, 0))
    /\ [][/\ tbl'.capacity >= tbl.capacity
          /\ tbl'.capacity # tbl.capacity =>
                /\ last'.op = "table_set"
                /\ over_max_load(tbl.count, tbl.capacity)
                /\ tbl'.capacity = grow_capacity(tbl.capacity)
          /\ (last'.op = "table_set" /\ over_max_load(tbl.count, tbl.capacity)) =>
                tbl'.capacity = grow_capacity(tbl.capacity)]_vars

\* A table of 8 slots at its load limit, 6 of 8, two of the 6 being tombstones, after
\* a table_delete.
C31_Witness ==
    /\ last.op = "table_delete"
    /\ last.ret = TRUE
    /\ tbl.capacity = 8
    /\ tbl.count = 6
    /\ Cardinality(TombstoneSlots(tbl)) = 2
    /\ Cardinality(LiveSlots(tbl)) = 4

\* The slot of a table that holds a key, or 0.
SlotOf(t, k) == IF \E i \in LiveSlots(t) : t.entries[i].key = k
                THEN CHOOSE i \in LiveSlots(t) : t.entries[i].key = k
                ELSE 0

\* The slot at which the probe of a key starts.
HomeSlot(h, t, k) == U32Mod(h[k].hash, t.capacity) + 1

\* C32: table_delete(K) returns true exactly when K was live.  On true the slot that
\* held K has key NULL and the value true, count and capacity and every other slot are
\* as they were, and table_get of every other key returns what it returned before; on
\* false the table is as it was.  In every reachable table a slot without key holds
\* nil (empty) or the boolean true (tombstone), and no key is in two slots.
C32_DeleteLeavesTombstone ==
    /\ [](/\ \A i \in 1..tbl.capacity :
                tbl.entries[i].key = NULL =>
                    \/ is_loxnil(tbl.entries[i].value)
                    \/ SameValue(tbl.entries[i].value, make_loxbool(TRUE))
          /\ \A i, j \in LiveSlots(tbl) :
                tbl.entries[i].key = tbl.entries[j].key => i = j)
    /\ [][last'.op = "table_delete" =>
            LET K == last'.key
                slot == SlotOf(tbl, K)
            IN  /\ last'.ret = (slot # 0)
                /\ last'.ret = table_get(heap, tbl, K, make_loxnil).ret
                /\ tbl'.count = tbl.count
                /\ tbl'.capacity = tbl.capacity
                /\ IF last'.ret = TRUE
                   THEN /\ tbl'.entries[slot].key = NULL
                        /\ SameValue(tbl'.entries[slot].value, make_loxbool(TRUE))
                        /\ \A i \in 1..tbl.capacity : i # slot => tbl'.entries[i] = tbl.entries[i]
                        /\ table_get(heap, tbl', K, make_loxnil).ret = FALSE
                   ELSE tbl' = tbl
                /\ \A k \in AllKeys \ {K}, o \in TableValues :
                      table_get(heap, tbl', k, o) = table_get(heap, tbl, k, o)]_vars

\* A table_delete has left a tombstone in the home slot of a key that is live further
\* along the probe sequence.
C32_Witness ==
    /\ last.op = "table_delete"
    /\ last.ret = TRUE
    /\ \E k \in ActiveKeys \ {last.key} :
          /\ HomeSlot(heap, tbl, k) = HomeSlot(heap, tbl, last.key)
          /\ SlotState(tbl.entries[HomeSlot(heap, tbl, k)]) = "tombstone"
          /\ SlotOf(tbl, k) # 0
          /\ table_get(heap, tbl, k, make_loxnil).ret = TRUE

\* The vm and its surroundings as the record the functions of vm.c work on.
World ==
    [chunk |-> vm.chunk, ip |-> vm.ip, stack |-> vm.stack, stacktop |-> vm.stacktop,
     objects |-> vm.objects, globals |-> vm.globals, strings |-> vm.strings,
     heap |-> heap, out |-> out, err |-> err,
     ret |-> NULL, undefined |-> FALSE, errtop |-> -1, result |-> "running"]

VmOf(w) ==
    [chunk |-> w.chunk, ip |-> w.ip, stack |-> w.stack, stacktop |-> w.stacktop,
     objects |-> w.objects, globals |-> w.globals, strings |-> w.strings]

\* The slots of a table that are empty: no key, and the value nil.
EmptySlots(t) == {i \in 1..t.capacity : SlotState(t.entries[i]) = "empty"}

\* C37: every reachable table with capacity above 0 has an empty slot, with key NULL
\* and value nil, so that from every slot the for (;;) of find_entry and of
\* table_findstring comes to a return within capacity turns, for every key and every
\* string; count is 0 exactly when capacity is 0, so that table_get, table_delete and
\* table_findstring, which return at count 0, never probe a table without slots, and
\* no call made has been left in its loop.
C37_ProbesTerminate ==
    /\ tbl.capacity > 0 => EmptySlots(tbl) # {}
    /\ tbl.count = 0 <=> tbl.capacity = 0
    /\ Len(tbl.entries) = tbl.capacity
    /\ tbl.capacity > 0 =>
          /\ \A k \in AllKeys : find_entry(heap, tbl.entries, tbl.capacity, k) \in 1..tbl.capacity
          /\ \A k \in AllKeys, index \in 0..(tbl.capacity - 1) :
                /\ find_entry_loop(heap, tbl.entries, tbl.capacity, k, index, NULL, 0) # Hang
                /\ findstring_loop(heap, tbl, StringChars(heap, k), heap[k].length,
                                   heap[k].hash, index, 0) # Hang
    /\ \A i \in 1..Len(KeyNames) :
          table_findstring(heap, tbl, KeyNames[i], Len(KeyNames[i]),
                           hash_string(KeyNames[i], Len(KeyNames[i]))) # Hang
    /\ last.op \in {"table_set", "table_delete", "table_get"} => last.ret \in BOOLEAN

\* A table_get of an absent key has ended at one of the two empty slots that a table
\* of 8 slots with 4 live entries and 2 tombstones has left.
C37_Witness ==
    /\ last.op = "table_get"
    /\ last.ret = FALSE
    /\ tbl.capacity = 8
    /\ Cardinality(EmptySlots(tbl)) = 2
    /\ Cardinality(TombstoneSlots(tbl)) = 2

(***************************************************************************)
(* memory.c, and free_vm of vm.c.                                          *)
(***************************************************************************)
\* free_table(self): the entries array is not a block of the heap here.
free_table(self) == init_table

\* free_object that frees the LoxString and leaves its buffer allocated.
free_object_keeps_buffer(h, object) == free_block(h, object)

free_object(h, object) == free_block(free_block(h, h[object].buffer), object)

\* The while loop of free_objects: next is read before the object is freed.
RECURSIVE free_objects_loop(_, _, _)
free_objects_loop(h, object, turns) ==
    IF object = NULL \/ turns = 0 THEN h
    ELSE free_objects_loop(free_object(h, object), h[object].next, turns - 1)

\* A LoxString that was freed is not read again while every object is in the
\* list once, which bounds the turns of the loop by the number of heap blocks.
free_objects(v, h) == free_objects_loop(h, v.objects, Len(h) + 1)

\* [vm, heap]
free_vm(v, h) ==
    [vm |-> [v EXCEPT !.globals = free_table(@), !.strings = free_table(@)],
     heap |-> free_objects(v, h)]

(***************************************************************************)
(* The interner specification: copy_string and take_string called between  *)
(* init_vm and free_vm.  Some runs start right after init_vm, the others   *)
(* after copy_string of the filler names, so that the rehash of vm.strings *)
(* from 8 to 16 slots is within reach.  amap remembers, for each byte      *)
(* sequence, the pointer the first call given it returned.                 *)
(***************************************************************************)
MaxCalls == 5

\* 'a' and 'q' hash to the same slot of 8 and of 16; 'aa' is longer; 'i' shares slot 4 of 8.
InternNames == {<<"a">>, <<"q">>, <<"a", "a">>, <<"i">>}
InternFill == <<<<"b">>, <<"j">>, <<"r">>, <<"z">>, <<"y">>>>

InternInit ==
    /\ \E m \in {Mem(init_vm, <<>>), InternAll(Mem(init_vm, <<>>), InternFill, 1)} :
          /\ vm = WithMem(init_vm, m)
          /\ heap = m.heap
    /\ out = <<>>
    /\ err = <<>>
    /\ pc = "idle"
    /\ result = "none"
    /\ hist = [calls |-> 0]
    /\ tbl = init_table
    /\ amap = [n \in InternNames |-> NULL]
    /\ last = NoCall

Interned(m, op, chars) ==
    /\ vm' = WithMem(vm, m)
    /\ heap' = m.heap
    /\ amap' = [amap EXCEPT ![chars] = IF @ = NULL THEN m.ret ELSE @]
    /\ last' = [op |-> op, chars |-> chars, ret |-> m.ret, first |-> amap[chars] = NULL,
                blocks |-> Len(heap)]
    /\ hist' = [calls |-> hist.calls + 1]
    /\ UNCHANGED <<out, err, pc, result, tbl>>

CopyString(chars) ==
    /\ hist.calls < MaxCalls
    /\ Interned(copy_string(Mem(vm, heap), chars, Len(chars)), "copy_string", chars)

\* The caller allocates the buffer it hands over, as concatenate does.
TakeString(chars) ==
    /\ hist.calls < MaxCalls
    /\ LET h1 == allocate_chars(heap, chars)
       IN  Interned(take_string(Mem(vm, h1), Len(h1), Len(chars)), "take_string", chars)

\* concatenate() with the strings lhs and rhs, interned before, as the two values on
\* top of the stack, as the instructions before an OP_ADD push them.
Concatenate(lhs, rhs) ==
    /\ hist.calls < MaxCalls
    /\ amap[lhs] # NULL
    /\ amap[rhs] # NULL
    /\ (lhs \o rhs) \in InternNames
    /\ LET w0 == push_vm(push_vm(World, make_loxobject(amap[lhs])), make_loxobject(amap[rhs]))
           w == concatenate(w0)
       IN  /\ vm' = VmOf(w)
           /\ heap' = w.heap
           /\ amap' = [amap EXCEPT ![lhs \o rhs] = IF @ = NULL THEN w.ret ELSE @]
           /\ last' = [op |-> "concatenate", chars |-> lhs \o rhs, ret |-> w.ret,
                       first |-> amap[lhs \o rhs] = NULL, blocks |-> Len(heap)]
    /\ hist' = [calls |-> hist.calls + 1]
    /\ UNCHANGED <<out, err, pc, result, tbl>>

InternNext ==
    \/ \E chars \in InternNames : CopyString(chars)
    \/ \E chars \in InternNames : TakeString(chars)
    \/ \E lhs, rhs \in InternNames : Concatenate(lhs, rhs)

SpecIntern == InternInit /\ [][InternNext]_vars

\* The LoxString objects of the heap.
StringObjects(h) == {s \in 1..Len(h) : h[s].kind = "LoxString"}

\* C2: between init_vm and free_vm, a copy_string or take_string call returns a string that
\* holds the bytes it was given; a call given the bytes of an earlier call returns the
\* pointer that call returned, calls given different bytes return different pointers; no
\* two string objects hold the same bytes, and every string object is the key of exactly one
\* entry of vm.strings.
C2_Interned ==
    /\ last.op \in {"copy_string", "take_string"} =>
          /\ StringChars(heap, last.ret) = last.chars
          /\ last.ret = amap[last.chars]
    /\ \A n1, n2 \in InternNames :
          (n1 # n2 /\ amap[n1] # NULL /\ amap[n2] # NULL) => amap[n1] # amap[n2]
    /\ \A s1, s2 \in StringObjects(heap) :
          StringChars(heap, s1) = StringChars(heap, s2) => s1 = s2
    /\ \A s \in StringObjects(heap) :
          Cardinality({i \in LiveSlots(vm.strings) : vm.strings.entries[i].key = s}) = 1

\* A take_string of bytes interned before, found away from their home slot after the rehash.
C2_Witness ==
    /\ last.op = "take_string"
    /\ last.first = FALSE
    /\ vm.strings.capacity = 16
    /\ vm.strings.entries[U32Mod(heap[last.ret].hash, 16) + 1].key # last.ret

\* The keys of a table.
LiveKeys(t) == {t.entries[i].key : i \in LiveSlots(t)}

\* C34: a take_string call, by itself or inside concatenate, whose bytes are interned
\* already returns the string that holds them, frees the buffer it was given once and
\* leaves the heap's other blocks, the object list and the strings table as they were;
\* a call whose bytes are new allocates one LoxString that owns the buffer, puts it at
\* the head of the object list and adds it as one key to the strings table.
\* concatenate leaves on the stack, in place of its two operands, the reference
\* take_string returned.
C34_TakeString ==
    [][last'.op \in {"take_string", "concatenate"} =>
          LET chars == last'.chars
              found == table_findstring(heap, vm.strings, chars, Len(chars),
                                        hash_string(chars, Len(chars)))
              buffer == Len(heap) + 1
              ret == last'.ret
          IN  /\ \A b \in 1..Len(heap) : heap'[b] = heap[b]
              /\ heap'[buffer].kind = "char[]"
              /\ heap'[buffer].chars = chars
              /\ StringChars(heap', ret) = chars
              /\ IF found # NULL
                 THEN /\ ret = found
                      /\ Len(heap') = buffer
                      /\ ~heap'[buffer].live
                      /\ heap'[buffer].frees = 1
                      /\ vm'.objects = vm.objects
                      /\ vm'.strings = vm.strings
                 ELSE /\ Len(heap') = buffer + 1
                      /\ ret = buffer + 1
                      /\ heap'[ret].kind = "LoxString"
                      /\ heap'[ret].buffer = buffer
                      /\ heap'[ret].length = Len(chars)
                      /\ heap'[buffer].live
                      /\ heap'[buffer].frees = 0
                      /\ vm'.objects = ret
                      /\ heap'[ret].next = vm.objects
                      /\ LiveKeys(vm'.strings) = LiveKeys(vm.strings) \cup {ret}
                      /\ ret \notin LiveKeys(vm.strings)
              /\ last'.op = "concatenate" =>
                    /\ vm'.stacktop = vm.stacktop + 1
                    /\ vm'.stack[vm'.stacktop] = make_loxobject(ret)
                    /\ found # NULL => vm'.stack[vm'.stacktop] = make_loxobject(found)]_vars

\* A concatenate whose result was interned before has pushed the string interned then
\* and freed its buffer.
C34_Witness ==
    /\ last.op = "concatenate"
    /\ last.first = FALSE
    /\ Len(heap) = last.blocks + 1
    /\ heap[Len(heap)].frees = 1
    /\ vm.stack[vm.stacktop] = make_loxobject(amap[last.chars])

(***************************************************************************)
(* The interpreter specification: a session of interpret_vm calls between  *)
(* init_vm and free_vm, each on one of the source lines below, with one    *)
(* step per instruction the dispatch loop executes.                        *)
(***************************************************************************)
MaxLines == 2

\* var a = 1;
SrcDefine ==
    <<"v", "a", "r", " ", "a", " ", "=", " ", "1", ";">>

\* var a = "s"; a = a + "t";
SrcRedefine ==
    <<"v", "a", "r", " ", "a", " ", "=", " ", "\"", "s", "\"", ";", " ", "a", " ", "=",
      " ", "a", " ", "+", " ", "\"", "t", "\"", ";">>

\* a;
SrcGet ==
    <<"a", ";">>

\* var b = 1; a = 2;
SrcSet ==
    <<"v", "a", "r", " ", "b", " ", "=", " ", "1", ";", " ", "a", " ", "=", " ", "2",
      ";">>

\* b = a;
SrcSetOther ==
    <<"b", " ", "=", " ", "a", ";">>

\* 3 - 2 - 1;
SrcSubtract ==
    <<"3", " ", "-", " ", "2", " ", "-", " ", "1", ";">>

\* var a = 3; -nil;
SrcDefineThenError ==
    <<"v", "a", "r", " ", "a", " ", "=", " ", "3", ";", " ", "-", "n", "i", "l", ";">>

\* "a" == "a"; "a" == "b"; 1 == 1; nil == nil; true == 1;
SrcEqual ==
    <<"\"", "a", "\"", " ", "=", "=", " ", "\"", "a", "\"", ";", " ", "\"", "a", "\"",
      " ", "=", "=", " ", "\"", "b", "\"", ";", " ", "1", " ", "=", "=", " ", "1", ";",
      " ", "n", "i", "l", " ", "=", "=", " ", "n", "i", "l", ";", " ", "t", "r", "u",
      "e", " ", "=", "=", " ", "1", ";">>

\* { var x = 1; { var y = x; y = y * 2; } x = x / 4; }
SrcBlock ==
    <<"{", " ", "v", "a", "r", " ", "x", " ", "=", " ", "1", ";", " ", "{", " ", "v",
      "a", "r", " ", "y", " ", "=", " ", "x", ";", " ", "y", " ", "=", " ", "y", " ",
      "*", " ", "2", ";", " ", "}", " ", "x", " ", "=", " ", "x", " ", "/", " ", "4",
      ";", " ", "}">>

\* for (var i = 0; i < 2; i = i + 1) { var j = i; }
SrcFor ==
    <<"f", "o", "r", " ", "(", "v", "a", "r", " ", "i", " ", "=", " ", "0", ";", " ",
      "i", " ", "<", " ", "2", ";", " ", "i", " ", "=", " ", "i", " ", "+", " ", "1",
      ")", " ", "{", " ", "v", "a", "r", " ", "j", " ", "=", " ", "i", ";", " ", "}">>

\* var c = 2; while (c > 0) c = c + -1; if (!c) c = nil; else c = false;
SrcWhile ==
    <<"v", "a", "r", " ", "c", " ", "=", " ", "2", ";", " ", "w", "h", "i", "l", "e",
      " ", "(", "c", " ", ">", " ", "0", ")", " ", "c", " ", "=", " ", "c", " ", "+",
      " ", "-", "1", ";", " ", "i", "f", " ", "(", "!", "c", ")", " ", "c", " ", "=",
      " ", "n", "i", "l", ";", " ", "e", "l", "s", "e", " ", "c", " ", "=", " ", "f",
      "a", "l", "s", "e", ";">>

\* if (true and nil or 1) 2 < "x";
SrcIfError ==
    <<"i", "f", " ", "(", "t", "r", "u", "e", " ", "a", "n", "d", " ", "n", "i", "l",
      " ", "o", "r", " ", "1", ")", " ", "2", " ", "<", " ", "\"", "x", "\"", ";">>

\* nil;
\* 1 + "x";
SrcAddError ==
    <<"n", "i", "l", ";", "\n", "1", " ", "+", " ", "\"", "x", "\"", ";">>

\* nil and a; 1 or a;
SrcShortCircuit ==
    <<"n", "i", "l", " ", "a", "n", "d", " ", "a", ";", " ", "1", " ", "o", "r", " ", "a", ";">>

\* var a = 1; { var a = 2; a; } a;
SrcScope ==
    <<"v", "a", "r", " ", "a", " ", "=", " ", "1", ";", " ", "{", " ", "v", "a", "r",
      " ", "a", " ", "=", " ", "2", ";", " ", "a", ";", " ", "}", " ", "a", ";">>

\* { var a = 1; { var a = 2; a; } a; }
SrcScopeLocal ==
    <<"{", " ", "v", "a", "r", " ", "a", " ", "=", " ", "1", ";", " ", "{", " ", "v",
      "a", "r", " ", "a", " ", "=", " ", "2", ";", " ", "a", ";", " ", "}", " ", "a",
      ";", " ", "}">>

\* var a = 1; { var a = 2; print a; } print a;
SrcScopePrint ==
    <<"v", "a", "r", " ", "a", " ", "=", " ", "1", ";", " ", "{", " ", "v", "a", "r",
      " ", "a", " ", "=", " ", "2", ";", " ", "p", "r", "i", "n", "t", " ", "a", ";",
      " ", "}", " ", "p", "r", "i", "n", "t", " ", "a", ";">>

\* { var a = a; }
SrcOwnInitializer ==
    <<"{", " ", "v", "a", "r", " ", "a", " ", "=", " ", "a", ";", " ", "}">>

\* { var a = -) + a; }
SrcOwnInitializerPanic ==
    <<"{", " ", "v", "a", "r", " ", "a", " ", "=", " ", "-", ")", " ", "+", " ", "a",
      ";", " ", "}">>

\* { var a; var a; }
SrcDuplicateLocal ==
    <<"{", " ", "v", "a", "r", " ", "a", ";", " ", "v", "a", "r", " ", "a", ";", " ", "}">>

\* var a; var a; { var a; { var a; } }
SrcShadow ==
    <<"v", "a", "r", " ", "a", ";", " ", "v", "a", "r", " ", "a", ";", " ", "{", " ",
      "v", "a", "r", " ", "a", ";", " ", "{", " ", "v", "a", "r", " ", "a", ";", " ",
      "}", " ", "}">>

\* 1 +;
SrcMissingExpression ==
    <<"1", " ", "+", ";">>

\* var 1;
SrcMissingName ==
    <<"v", "a", "r", " ", "1", ";">>

\* while 1;
SrcWhileNoParen ==
    <<"w", "h", "i", "l", "e", " ", "1", ";">>

\* print 1; print 2; -nil; print 3;
SrcPrintThenError ==
    <<"p", "r", "i", "n", "t", " ", "1", ";", " ", "p", "r", "i", "n", "t", " ", "2", ";",
      " ", "-", "n", "i", "l", ";", " ", "p", "r", "i", "n", "t", " ", "3", ";">>

\* for (var i = 0; i < 3; i = i + 1) print i;
SrcForPrint ==
    <<"f", "o", "r", " ", "(", "v", "a", "r", " ", "i", " ", "=", " ", "0", ";", " ",
      "i", " ", "<", " ", "3", ";", " ", "i", " ", "=", " ", "i", " ", "+", " ", "1",
      ")", " ", "p", "r", "i", "n", "t", " ", "i", ";">>

\* var i = 0; while (i < 3) { print i; i = i + 1; }
SrcWhilePrint ==
    <<"v", "a", "r", " ", "i", " ", "=", " ", "0", ";", " ", "w", "h", "i", "l", "e",
      " ", "(", "i", " ", "<", " ", "3", ")", " ", "{", " ", "p", "r", "i", "n", "t",
      " ", "i", ";", " ", "i", " ", "=", " ", "i", " ", "+", " ", "1", ";", " ", "}">>

\* 1 + 2 * 3;
SrcPrecedence ==
    <<"1", " ", "+", " ", "2", " ", "*", " ", "3", ";">>

\* -1 - 2;
SrcUnary ==
    <<"-", "1", " ", "-", " ", "2", ";">>

\* var a = 0;
\* while (a < 2)
\* a = a + 1;
\* if (a)
\* a;
\* else
\* nil;
SrcLines ==
    <<"v", "a", "r", " ", "a", " ", "=", " ", "0", ";", "\n",
      "w", "h", "i", "l", "e", " ", "(", "a", " ", "<", " ", "2", ")", "\n",
      "a", " ", "=", " ", "a", " ", "+", " ", "1", ";", "\n",
      "i", "f", " ", "(", "a", ")", "\n", "a", ";", "\n", "e", "l", "s", "e", "\n",
      "n", "i", "l", ";">>

\* a + b = c;
SrcBadTarget ==
    <<"a", " ", "+", " ", "b", " ", "=", " ", "c", ";">>

\* a * b = c;
SrcBadTargetFactor ==
    <<"a", " ", "*", " ", "b", " ", "=", " ", "c", ";">>

\* a = b;
SrcAssign ==
    <<"a", " ", "=", " ", "b", ";">>

\* a = b = c;
SrcAssignChain ==
    <<"a", " ", "=", " ", "b", " ", "=", " ", "c", ";">>

\* 1 + ) ; * 2 ; var a ;
SrcTwoErrors ==
    <<"1", " ", "+", " ", ")", " ", ";", " ", "*", " ", "2", " ", ";", " ",
      "v", "a", "r", " ", "a", " ", ";">>

\* ) 1 @ 2 ; + ;
SrcSyncError ==
    <<")", " ", "1", " ", "@", " ", "2", " ", ";", " ", "+", " ", ";">>

\* { var a = 1; var b = 2; b = 3; 4 + b; a = b; a; }
SrcLocalSlots ==
    <<"{", " ", "v", "a", "r", " ", "a", " ", "=", " ", "1", ";", " ", "v", "a", "r",
      " ", "b", " ", "=", " ", "2", ";", " ", "b", " ", "=", " ", "3", ";", " ", "4",
      " ", "+", " ", "b", ";", " ", "a", " ", "=", " ", "b", ";", " ", "a", ";", " ",
      "}">>

\* !nil; !false; !true; !0; !1; !""; !"a";
SrcFalsy ==
    <<"!", "n", "i", "l", ";", " ", "!", "f", "a", "l", "s", "e", ";", " ", "!", "t",
      "r", "u", "e", ";", " ", "!", "0", ";", " ", "!", "1", ";", " ", "!", "\"", "\"",
      ";", " ", "!", "\"", "a", "\"", ";">>

\* if (nil) 1; if (false) 2; if (0) 3; if ("") 4; if (true) 5;
SrcFalsyJump ==
    <<"i", "f", " ", "(", "n", "i", "l", ")", " ", "1", ";", " ", "i", "f", " ", "(",
      "f", "a", "l", "s", "e", ")", " ", "2", ";", " ", "i", "f", " ", "(", "0", ")",
      " ", "3", ";", " ", "i", "f", " ", "(", "\"", "\"", ")", " ", "4", ";", " ", "i",
      "f", " ", "(", "t", "r", "u", "e", ")", " ", "5", ";">>

Sources ==
    <<SrcDefine, SrcRedefine, SrcGet, SrcSet, SrcSetOther, SrcSubtract, SrcDefineThenError,
      SrcEqual, SrcBlock, SrcFor, SrcWhile, SrcIfError, SrcAddError, SrcShortCircuit,
      SrcScope, SrcScopeLocal, SrcScopePrint, SrcOwnInitializer, SrcOwnInitializerPanic,
      SrcDuplicateLocal, SrcShadow, SrcMissingExpression, SrcMissingName, SrcWhileNoParen,
      SrcPrintThenError, SrcForPrint, SrcWhilePrint, SrcPrecedence, SrcUnary,
      SrcLines,
      SrcBadTarget,
      SrcBadTargetFactor,
      SrcAssign,
      SrcAssignChain,
      SrcTwoErrors,
      SrcSyncError,
      SrcLocalSlots,
      SrcFalsy,
      SrcFalsyJump>>

GlobalNames == {<<"a">>, <<"b">>, <<"c">>}

(***************************************************************************)
(* History for the statements of the chunk being run: hist.frames is the   *)
(* stack of statements control is inside, each with the stack height found *)
(* on entry and the greatest height seen since; a statement is entered     *)
(* when ip reaches its first byte and left when ip reaches the byte after  *)
(* its last.                                                               *)
(***************************************************************************)
Max(a, b) == IF a > b THEN a ELSE b

RECURSIVE LeaveStatements(_, _, _, _)
LeaveStatements(frames, ip, height, closed) ==
    IF Len(frames) > 0 /\ frames[Len(frames)].end = ip
    THEN LeaveStatements(SubSeq(frames, 1, Len(frames) - 1), ip, height,
                         Append(closed, [kind |-> frames[Len(frames)].kind,
                                         before |-> frames[Len(frames)].before,
                                         peak |-> frames[Len(frames)].peak,
                                         after |-> height,
                                         locals |-> frames[Len(frames)].locals]))
    ELSE [frames |-> frames, closed |-> closed]

\* The statements that begin at ip, outermost first: a statement is noted
\* when its last byte is emitted, so of two with the same span the later
\* one encloses the other.
RECURSIVE EnterStatements(_, _, _, _, _)
EnterStatements(stmts, frames, ip, height, todo) ==
    IF todo = {} THEN frames
    ELSE LET id == CHOOSE i \in todo :
                        \A j \in todo : \/ stmts[i].end > stmts[j].end
                                        \/ stmts[i].end = stmts[j].end /\ i >= j
         IN  EnterStatements(stmts,
                             Append(frames, [id |-> id, kind |-> stmts[id].kind,
                                             end |-> stmts[id].end,
                                             locals |-> stmts[id].locals,
                                             before |-> height, peak |-> height]),
                             ip, height, todo \ {id})

Arrive(stmts, frames, ip, height) ==
    LET seen == [i \in 1..Len(frames) |-> [frames[i] EXCEPT !.peak = Max(@, height)]]
        left == LeaveStatements(seen, ip, height, <<>>)
        open == {left.frames[i].id : i \in 1..Len(left.frames)}
        todo == {i \in 1..Len(stmts) :
                    stmts[i].start = ip /\ stmts[i].start < stmts[i].end /\ i \notin open}
    IN  [frames |-> EnterStatements(stmts, left.frames, ip, height, todo),
         closed |-> left.closed]

\* The operand of the instruction at ip, as the name of a global.
OperandName == StringChars(heap, as_loxobject(vm.chunk.constants.values[vm.chunk.code[vm.ip + 2] + 1]))

LiveStack == SubSeq(vm.stack, 1, vm.stacktop)

\* What the globals table of v binds the variable called name to.
GlobalBinding(v, h, name) ==
    LET key == table_findstring(h, v.strings, name, Len(name), hash_string(name, Len(name)))
        r == table_get(h, v.globals, key, zero_value)
    IN  IF key = NULL THEN Absent
        ELSE IF r.ret THEN Present(r.out) ELSE Absent

\* The line the chunk records for the instruction at ip.
LineAt(chunk, ip) == IF ip < Len(chunk.lines) THEN chunk.lines[ip + 1] ELSE 0

\* last is history: the instruction just executed, the stack, the globals
\* and the place it found, its line, the height at which it raised an error
\* if it did, and the statements that ended with it.

Event(op, event, w, name, closed) ==
    [op |-> op, event |-> event, ip |-> vm.ip, line |-> LineAt(vm.chunk, vm.ip),
     top |-> vm.stacktop, stack |-> LiveStack,
     errtop |-> w.errtop, name |-> name,
     bound |-> IF name \in GlobalNames THEN amap[name] ELSE Absent,
     globals |-> [n \in GlobalNames |-> GlobalBinding(vm, heap, n)],
     src |-> hist.src, closed |-> closed, printed |-> Len(out)]

VMInit ==
    /\ vm = init_vm
    /\ heap = <<>>
    /\ out = <<>>
    /\ err = <<>>
    /\ pc = "idle"
    /\ result = "none"
    /\ hist = [calls |-> 0, src |-> 0, stmts |-> <<>>, frames |-> <<>>, errors |-> 0,
               errtop |-> 0, failed |-> {}, unready |-> 0, reported |-> 0,
               code |-> <<>>, lines |-> <<>>, constants |-> <<>>, peak |-> 0,
               trace |-> <<>>, shadow |-> <<>>,
               duplicates |-> 0, messages |-> {}]
    /\ tbl = init_table
    /\ amap = [n \in GlobalNames |-> Absent]
    /\ last = [op |-> -1, event |-> "init_vm", ip |-> 0, line |-> 0, top |-> 0, stack |-> <<>>,
               errtop |-> -1, name |-> <<>>, bound |-> Absent,
               globals |-> [n \in GlobalNames |-> Absent], src |-> 0, closed |-> <<>>,
               printed |-> 0]

\* An access outside the stack array is undefined: the process may die of
\* it, or go on with the stack pointer outside the array.
Undefined(op, w, name) ==
    /\ pc' \in {"crashed", "undefined"}
    /\ vm' = VmOf(w)
    /\ heap' = w.heap
    /\ out' = w.out
    /\ err' = w.err
    /\ result' = result
    /\ hist' = hist
    /\ last' = Event(op, "undefined", w, name, <<>>)

\* interpret_vm(source), up to the first instruction of run_vm; i tells the
\* source lines apart in the history.  InterpretSource compiles, and
\* InterpretCompiled is the rest.
\* c is what compile(source, &chunk) left.
InterpretCompiled(c, i) ==
    LET started == [hist EXCEPT !.calls = @ + 1, !.src = i,
                                !.unready = c.unready, !.reported = Len(c.err),
                                !.duplicates = c.duplicates,
                                !.code = c.chunk.code, !.lines = c.chunk.lines,
                                !.constants = c.chunk.constants.values, !.peak = c.peak,
                                !.trace = c.trace,
                                !.messages = {c.err[k].message : k \in 1..Len(c.err)}]
        at == Arrive(c.stmts, <<>>, 0, vm.stacktop)
    IN  /\ pc = "idle"
        /\ hist.calls < MaxLines
        /\ heap' = c.heap
        /\ out' = out
        /\ err' = err \o c.err
        /\ UNCHANGED <<tbl, amap>>
        /\ IF c.crashed
           THEN /\ pc' = "undefined"
                /\ vm' = WithMem(vm, c)
                /\ result' = result
                /\ hist' = started
                /\ last' = Event(-1, "undefined", World, <<>>, <<>>)
           ELSE IF ~c.ret
           THEN /\ pc' = "idle"
                /\ vm' = WithMem(vm, c)
                /\ result' = INTERPRET_COMPILE_ERROR
                /\ hist' = started
                /\ last' = Event(-1, "compile_error", World, <<>>, <<>>)
           ELSE /\ pc' = "run"
                /\ vm' = [WithMem(vm, c) EXCEPT !.chunk = c.chunk, !.ip = 0]
                /\ result' = "none"
                /\ hist' = [started EXCEPT !.stmts = c.stmts, !.frames = at.frames]
                /\ last' = Event(-1, "compiled", World, <<>>, at.closed)

\* History: hist.shadow holds, for each local the compiler has in scope at the last
\* statement boundary passed, the value it was declared with or the last value an
\* OP_SET_LOCAL of its slot has stored.  The instruction op at vm.ip has led to w and
\* ended the statements in closed.
Shadow(op, w, closed) ==
    LET slot == vm.chunk.code[vm.ip + 2]
        stored == IF op = OP_SET_LOCAL /\ slot < Len(hist.shadow) /\ vm.stacktop >= 1
                  THEN [hist.shadow EXCEPT ![slot + 1] = vm.stack[vm.stacktop]]
                  ELSE hist.shadow
        n == IF closed = <<>> THEN Len(stored) ELSE closed[Len(closed)].locals
    IN  [i \in 1..n |-> IF i <= Len(stored) THEN stored[i] ELSE StackSlot(w, i - 1)]

\* One turn of the for (;;) of run_vm on the instruction op, w being the
\* outcome of its case; when the case returns, the rest of interpret_vm.
Dispatch(op, w, name) ==
    LET at == Arrive(hist.stmts, hist.frames, w.ip, w.stacktop)
    IN  /\ tbl' = tbl
        /\ IF w.undefined THEN Undefined(op, w, name)
           ELSE /\ heap' = w.heap
                /\ out' = w.out
                /\ err' = w.err
                /\ IF w.result = "running"
                   THEN /\ pc' = "run"
                        /\ vm' = VmOf(w)
                        /\ result' = result
                        /\ hist' = [hist EXCEPT !.frames = at.frames,
                                                 !.shadow = Shadow(op, w, at.closed)]
                        /\ last' = Event(op, "step", w, name, at.closed)
                   ELSE /\ pc' = "idle"
                        /\ vm' = [VmOf(w) EXCEPT !.chunk = free_chunk(@)]
                        /\ result' = w.result
                        /\ hist' = IF w.result = INTERPRET_RUNTIME_ERROR
                                   THEN [hist EXCEPT !.stmts = <<>>, !.frames = <<>>,
                                                     !.shadow = <<>>,
                                                     !.errors = @ + 1,
                                                     !.errtop = Max(@, w.errtop),
                                                     !.failed = @ \cup {<<op, name>>}]
                                   ELSE [hist EXCEPT !.stmts = <<>>, !.frames = <<>>,
                                                     !.shadow = <<>>]
                        /\ last' = Event(op,
                                         IF w.result = INTERPRET_RUNTIME_ERROR
                                         THEN "runtime_error" ELSE "return",
                                         w, name, <<>>)

InterpretSource(source, i) ==
    InterpretCompiled(Call("compile", <<Mem(vm, heap), source, init_chunk>>), i)

Interpret(i) == InterpretSource(Sources[i], i)

Fetch(op) == pc = "run" /\ vm.chunk.code[vm.ip + 1] = op

\* The value an instruction finds on top of the stack.
Top == StackSlot(World, vm.stacktop - 1)

OpConstant == Fetch(OP_CONSTANT) /\ Dispatch(OP_CONSTANT, op_constant(read_byte(World)), <<>>) /\ amap' = amap
OpNil == Fetch(OP_NIL) /\ Dispatch(OP_NIL, op_nil(read_byte(World)), <<>>) /\ amap' = amap
OpTrue == Fetch(OP_TRUE) /\ Dispatch(OP_TRUE, op_true(read_byte(World)), <<>>) /\ amap' = amap
OpFalse == Fetch(OP_FALSE) /\ Dispatch(OP_FALSE, op_false(read_byte(World)), <<>>) /\ amap' = amap
OpEqual == Fetch(OP_EQUAL) /\ Dispatch(OP_EQUAL, op_equal(read_byte(World)), <<>>) /\ amap' = amap
OpGreater == Fetch(OP_GREATER) /\ Dispatch(OP_GREATER, make_binary_op(read_byte(World), OP_GREATER), <<>>) /\ amap' = amap
OpLess == Fetch(OP_LESS) /\ Dispatch(OP_LESS, make_binary_op(read_byte(World), OP_LESS), <<>>) /\ amap' = amap
OpUnm == Fetch(OP_UNM) /\ Dispatch(OP_UNM, op_unm(read_byte(World)), <<>>) /\ amap' = amap
OpAdd == Fetch(OP_ADD) /\ Dispatch(OP_ADD, op_add(read_byte(World)), <<>>) /\ amap' = amap
OpSub == Fetch(OP_SUB) /\ Dispatch(OP_SUB, make_binary_op(read_byte(World), OP_SUB), <<>>) /\ amap' = amap
OpMul == Fetch(OP_MUL) /\ Dispatch(OP_MUL, make_binary_op(read_byte(World), OP_MUL), <<>>) /\ amap' = amap
OpDiv == Fetch(OP_DIV) /\ Dispatch(OP_DIV, make_binary_op(read_byte(World), OP_DIV), <<>>) /\ amap' = amap
OpRet == Fetch(OP_RET) /\ Dispatch(OP_RET, op_ret(read_byte(World)), <<>>) /\ amap' = amap
OpNot == Fetch(OP_NOT) /\ Dispatch(OP_NOT, op_not(read_byte(World)), <<>>) /\ amap' = amap
OpJump == Fetch(OP_JUMP) /\ Dispatch(OP_JUMP, op_jump(read_byte(World)), <<>>) /\ amap' = amap
OpJumpIfFalse == Fetch(OP_JUMP_IF_FALSE) /\ Dispatch(OP_JUMP_IF_FALSE, op_jump_if_false(read_byte(World)), <<>>) /\ amap' = amap
OpLoop == Fetch(OP_LOOP) /\ Dispatch(OP_LOOP, op_loop(read_byte(World)), <<>>) /\ amap' = amap
OpPop == Fetch(OP_POP) /\ Dispatch(OP_POP, op_pop(read_byte(World)), <<>>) /\ amap' = amap
OpGetLocal == Fetch(OP_GET_LOCAL) /\ Dispatch(OP_GET_LOCAL, op_get_local(read_byte(World)), <<>>) /\ amap' = amap
OpSetLocal == Fetch(OP_SET_LOCAL) /\ Dispatch(OP_SET_LOCAL, op_set_local(read_byte(World)), <<>>) /\ amap' = amap

\* amap is history: the binding the program has given each global, kept
\* apart from the globals table.
OpDefineGlobal ==
    /\ Fetch(OP_DEFINE_GLOBAL)
    /\ Dispatch(OP_DEFINE_GLOBAL, op_define_global(read_byte(World)), OperandName)
    /\ amap' = [amap EXCEPT ![OperandName] = Present(Top)]

OpGetGlobal ==
    /\ Fetch(OP_GET_GLOBAL)
    /\ Dispatch(OP_GET_GLOBAL, op_get_global(read_byte(World)), OperandName)
    /\ amap' = amap

OpSetGlobal ==
    /\ Fetch(OP_SET_GLOBAL)
    /\ Dispatch(OP_SET_GLOBAL, op_set_global(read_byte(World)), OperandName)
    /\ amap' = IF amap[OperandName].present THEN [amap EXCEPT ![OperandName] = Present(Top)]
               ELSE amap

\* free_vm(), called between interpret_vm calls; nothing is called after it, and no
\* global is bound any more.
FreeVm ==
    /\ pc = "idle"
    /\ pc' = "freed"
    /\ vm' = free_vm(vm, heap).vm
    /\ heap' = free_vm(vm, heap).heap
    /\ last' = Event(-1, "free_vm", World, <<>>, <<>>)
    /\ amap' = [n \in GlobalNames |-> Absent]
    /\ UNCHANGED <<out, err, result, hist, tbl>>

VMNext ==
    \/ \E i \in 1..Len(Sources) : Interpret(i)
    \/ OpConstant \/ OpNil \/ OpTrue \/ OpFalse \/ OpEqual \/ OpGreater \/ OpLess
    \/ OpUnm \/ OpAdd \/ OpSub \/ OpMul \/ OpDiv \/ OpRet \/ OpNot
    \/ OpJump \/ OpJumpIfFalse \/ OpLoop \/ OpPop
    \/ OpDefineGlobal \/ OpGetGlobal \/ OpSetGlobal \/ OpGetLocal \/ OpSetLocal

SpecVM == VMInit /\ [][VMNext]_vars

\* The sessions that end with free_vm.
FreeNext == VMNext \/ FreeVm

SpecFree == VMInit /\ [][FreeNext]_vars

\* The values an instruction found below the top of the stack and on top of it.
LastLhs == last.stack[last.top - 1]
LastRhs == last.stack[last.top]
\* The value on top of the stack now.
TopNow == vm.stack[vm.stacktop]

\* Equality of two values as the language defines it: never across tags, nil with
\* nil, booleans and numbers by value, strings by their bytes.
EqualValues(h, lhs, rhs) ==
    /\ lhs.type = rhs.type
    /\ CASE lhs.type = VAL_BOOL -> lhs.boolean = rhs.boolean
         [] lhs.type = VAL_NIL -> TRUE
         [] lhs.type = VAL_NUMBER -> NumEq(lhs.number, rhs.number)
         [] lhs.type = VAL_OBJECT -> StringChars(h, lhs.object) = StringChars(h, rhs.object)

\* C3: OP_EQUAL replaces the two values on top of the stack by the boolean that says
\* whether they are equal: two strings are equal exactly when they hold the same bytes,
\* which is when they are the same interned reference; values of different tags are
\* never equal, nil equals nil, booleans and numbers compare by value.
C3_EqualByValue ==
    (last.op = OP_EQUAL /\ last.event = "step") =>
        /\ vm.stacktop = last.top - 1
        /\ TopNow = make_loxbool(EqualValues(heap, LastLhs, LastRhs))
        /\ (is_loxobject(LastLhs) /\ is_loxobject(LastRhs)) =>
              (EqualValues(heap, LastLhs, LastRhs) <=> LastLhs.object = LastRhs.object)

\* The statements whose bytecode leaves the stack as high as it found it.
NeutralKinds == {"expression", "print", "if", "while", "for", "block", "var_global"}

\* C5: when the bytecode of a complete statement (expression statement, print, if,
\* while, for, block, global var declaration) has run without error, the stack is as
\* high as it was right before the statement; every statement that was entered has
\* ended when OP_RET is reached, and the stack is then empty.
C5_ZeroStackRule ==
    /\ \A i \in 1..Len(last.closed) :
          last.closed[i].kind \in NeutralKinds => last.closed[i].after = last.closed[i].before
    /\ Fetch(OP_RET) => (hist.frames = <<>> /\ vm.stacktop = 0)

\* A block or a for loop that held locals on the stack has ended.
C5_Witness ==
    \E i \in 1..Len(last.closed) :
        /\ last.closed[i].kind \in {"block", "for"}
        /\ last.closed[i].peak > last.closed[i].before + 1
        /\ last.closed[i].after = last.closed[i].before

\* The bindings of the globals table now.
GlobalsNow == [n \in GlobalNames |-> GlobalBinding(vm, heap, n)]

\* C6: when an instruction raises a runtime error, interpret_vm returns
\* INTERPRET_RUNTIME_ERROR with the stack empty and the globals as the instruction
\* found them; the vm can be used again: a later interpret_vm call finds every
\* global bound as it was, and returns INTERPRET_OK with the stack empty when its
\* own instructions raise no error.
C6_RuntimeErrorRecovers ==
    /\ last.event = "runtime_error" =>
          /\ result = INTERPRET_RUNTIME_ERROR
          /\ pc = "idle"
          /\ vm.stacktop = 0
          /\ GlobalsNow = last.globals
    /\ hist.errors > 0 =>
          /\ GlobalsNow = amap
          /\ last.event = "compiled" => (pc = "run" /\ vm.stacktop = 0 /\ vm.ip = 0)
          /\ last.event = "return" => (result = INTERPRET_OK /\ pc = "idle" /\ vm.stacktop = 0)

\* After an error raised with values on the stack, a later call reads a global that
\* was defined before the error.
C6_Witness ==
    /\ hist.errors = 1
    /\ hist.errtop > 0
    /\ hist.calls = 2
    /\ last.op = OP_GET_GLOBAL
    /\ last.event = "step"
    /\ last.globals[last.name].present
    /\ TopNow = last.globals[last.name].value

\* The message runtime_error_vm wrote last.
LastMessage == err[Len(err) - 1].message

\* C7: OP_SET_GLOBAL of a name the globals table does not bind raises a runtime error
\* and leaves the name unbound and every other global as it was, so that a later
\* OP_GET_GLOBAL or OP_SET_GLOBAL of the name raises the error again; OP_SET_GLOBAL of
\* a bound name binds it to the value on top of the stack, leaves the other globals
\* as they were and leaves the stack as high as it was.
C7_SetGlobal ==
    /\ (last.op = OP_SET_GLOBAL /\ last.event # "undefined") =>
          IF last.globals[last.name].present
          THEN /\ last.event = "step"
               /\ GlobalsNow = [last.globals EXCEPT ![last.name] = Present(LastRhs)]
               /\ vm.stacktop = last.top
               /\ LiveStack = last.stack
          ELSE /\ last.event = "runtime_error"
               /\ result = INTERPRET_RUNTIME_ERROR
               /\ GlobalsNow = last.globals
    /\ (last.op \in {OP_GET_GLOBAL, OP_SET_GLOBAL} /\ ~last.globals[last.name].present) =>
          /\ last.event = "runtime_error"
          /\ ~GlobalsNow[last.name].present

\* A second OP_SET_GLOBAL of a name that an earlier one failed to set, and that no
\* one has defined, while another global is bound.
C7_Witness ==
    /\ last.op = OP_SET_GLOBAL
    /\ last.event = "runtime_error"
    /\ hist.errors = 2
    /\ hist.failed = {<<OP_SET_GLOBAL, last.name>>}
    /\ \E n \in GlobalNames : GlobalsNow[n].present

\* C8: OP_DEFINE_GLOBAL binds the name to the value on top of the stack and pops it,
\* whether or not the name was bound; OP_GET_GLOBAL pushes the value the most recent
\* OP_DEFINE_GLOBAL or successful OP_SET_GLOBAL of the name gave it (amap), in this or
\* in an earlier interpret_vm call, and raises the runtime error "Undefined variable
\* '<name>'." exactly when the name has never been defined.
C8_DefineAndGetGlobal ==
    /\ GlobalsNow = amap
    /\ (last.op = OP_DEFINE_GLOBAL /\ last.event # "undefined") =>
          /\ last.event = "step"
          /\ GlobalsNow = [last.globals EXCEPT ![last.name] = Present(LastRhs)]
          /\ vm.stacktop = last.top - 1
    /\ (last.op = OP_GET_GLOBAL /\ last.event # "undefined") =>
          IF last.bound.present
          THEN /\ last.event = "step"
               /\ vm.stacktop = last.top + 1
               /\ TopNow = last.bound.value
               /\ SubSeq(vm.stack, 1, last.top) = last.stack
          ELSE /\ last.event = "runtime_error"
               /\ result = INTERPRET_RUNTIME_ERROR
               /\ LastMessage = <<"Undefined variable '", last.name, "'.">>

\* An OP_GET_GLOBAL that pushes the string an earlier call bound by a definition
\* followed by an assignment.
C8_Witness ==
    /\ last.op = OP_GET_GLOBAL
    /\ last.event = "step"
    /\ hist.calls = 2
    /\ Sources[last.src] = SrcGet
    /\ is_loxobject(TopNow)
    /\ StringChars(heap, as_loxobject(TopNow)) = <<"s", "t">>

BinaryOps == {OP_SUB, OP_MUL, OP_DIV, OP_GREATER, OP_LESS}

\* C10: OP_SUB, OP_MUL, OP_DIV, OP_GREATER and OP_LESS raise a runtime error exactly
\* when one of the two values on top of the stack is not a number, and raise it with
\* both values still on the stack; otherwise they replace the two values by lhs op
\* rhs, rhs being the top value and lhs the one below it, so that the stack is one
\* lower and `3 - 2 - 1` leaves 0.  OP_UNM raises a runtime error exactly when the top
\* value is not a number, with the value still on the stack, and otherwise replaces it
\* by its negation.
C10_Arithmetic ==
    /\ (last.op \in BinaryOps /\ last.event # "undefined") =>
          IF is_loxnumber(LastLhs) /\ is_loxnumber(LastRhs)
          THEN /\ last.event = "step"
               /\ vm.stacktop = last.top - 1
               /\ TopNow = BinaryOperator(last.op, as_loxnumber(LastLhs), as_loxnumber(LastRhs))
               /\ SubSeq(vm.stack, 1, last.top - 2) = SubSeq(last.stack, 1, last.top - 2)
          ELSE /\ last.event = "runtime_error"
               /\ result = INTERPRET_RUNTIME_ERROR
               /\ last.errtop = last.top
               /\ LastMessage = "Operands must be numbers."
    /\ (last.op = OP_UNM /\ last.event # "undefined") =>
          IF is_loxnumber(LastRhs)
          THEN /\ last.event = "step"
               /\ vm.stacktop = last.top
               /\ TopNow = make_loxnumber(NumNeg(as_loxnumber(LastRhs)))
          ELSE /\ last.event = "runtime_error"
               /\ result = INTERPRET_RUNTIME_ERROR
               /\ last.errtop = last.top
               /\ LastMessage = "Operand must be a number."
    /\ (Sources[IF last.src = 0 THEN 1 ELSE last.src] = SrcSubtract /\ last.src # 0
        /\ last.event = "step" /\ Fetch(OP_POP)) =>
          TopNow = make_loxnumber(Rat(0, 1))

\* The second OP_SUB of `3 - 2 - 1` has left 0.
C10_Witness ==
    /\ last.src # 0
    /\ Sources[IF last.src = 0 THEN 1 ELSE last.src] = SrcSubtract
    /\ last.op = OP_SUB
    /\ last.event = "step"
    /\ Fetch(OP_POP)
    /\ LastLhs = make_loxnumber(Rat(1, 1))
    /\ LastRhs = make_loxnumber(Rat(1, 1))
    /\ TopNow = make_loxnumber(Rat(0, 1))

\* The latest interpret_vm call was given source.
LastSource(source) == hist.src \in 1..Len(Sources) /\ Sources[hist.src] = source

\* The runtime error messages of the language, by instruction.
MessageOf(op, name) ==
    CASE op = OP_UNM -> "Operand must be a number."
      [] op \in BinaryOps -> "Operands must be numbers."
      [] op = OP_ADD -> "Operands must be two numbers or two strings."
      [] op \in {OP_GET_GLOBAL, OP_SET_GLOBAL} -> <<"Undefined variable '", name, "'.">>
      [] OTHER -> "none"

\* C11: every runtime error writes the message of its instruction: "Operand must be a
\* number." for OP_UNM, "Operands must be numbers." for OP_SUB, OP_MUL, OP_DIV,
\* OP_GREATER and OP_LESS, "Operands must be two numbers or two strings." for OP_ADD,
\* "Undefined variable '<name>'." for OP_GET_GLOBAL and OP_SET_GLOBAL; and after it
\* "[line N] in script", N being the line the chunk records for the instruction.
C11_RuntimeErrorMessages ==
    last.event = "runtime_error" =>
        /\ Len(err) >= 2
        /\ err[Len(err) - 1] = [message |-> MessageOf(last.op, last.name)]
        /\ err[Len(err)] = [line |-> last.line, at |-> "script"]

\* C12: in the code of a and b, OP_JUMP_IF_FALSE leaves a on the stack and goes past
\* the code of b when a is falsy, and goes on to it when a is truthy; in the code of
\* a or b, a truthy a is left on the stack and OP_JUMP goes past the code of b, and a
\* falsy a leads to it; the code of b begins by popping a, and when it ends the stack
\* is as high as it was with a on it: one value is left in all four cases.
C12_ShortCircuit ==
    /\ \A i \in 1..Len(hist.stmts) :
          LET s == hist.stmts[i]
          IN  /\ (s.kind = "and" /\ last.event = "step" /\ last.op = OP_JUMP_IF_FALSE
                                /\ last.ip + 3 = s.start) =>
                    /\ LiveStack = last.stack
                    /\ vm.ip = IF isfalsy(LastRhs) THEN s.end ELSE s.start
              /\ (s.kind = "or" /\ last.event = "step" /\ last.op = OP_JUMP_IF_FALSE
                               /\ last.ip + 6 = s.start) =>
                    /\ LiveStack = last.stack
                    /\ vm.ip = IF isfalsy(LastRhs) THEN s.start ELSE last.ip + 3
              /\ (s.kind = "or" /\ last.event = "step" /\ last.op = OP_JUMP
                               /\ last.ip + 3 = s.start) =>
                    /\ ~isfalsy(LastRhs)
                    /\ LiveStack = last.stack
                    /\ vm.ip = s.end
              /\ (s.kind \in {"and", "or"} /\ last.event = "step" /\ last.ip = s.start) =>
                    /\ last.op = OP_POP
                    /\ LiveStack = SubSeq(last.stack, 1, last.top - 1)
    /\ \A i \in 1..Len(last.closed) :
          last.closed[i].kind \in {"and", "or"} => last.closed[i].after = last.closed[i].before

\* The right operand of an or was skipped after the right operand of an and was:
\* either would have raised a runtime error, a having no binding.
C12_Witness ==
    /\ LastSource(SrcShortCircuit)
    /\ last.op = OP_JUMP
    /\ last.event = "step"
    /\ ~amap[<<"a">>].present
    /\ hist.errors = 0
    /\ \E i \in 1..Len(hist.stmts) :
          hist.stmts[i].kind = "or" /\ hist.stmts[i].start = last.ip + 3 /\ vm.ip = hist.stmts[i].end

\* C13: a name declared in an inner block resolves to that local inside the block,
\* and after the block to the enclosing binding, whose value is as it was: in
\* var a = 1; { var a = 2; a; } a; the a of the block reads slot 0, which holds 2, and
\* the a after it reads the global, 1; in { var a = 1; { var a = 2; a; } a; } the inner
\* a reads 2 and the a after the inner block reads the outer local, 1; and
\* var a = 1; { var a = 2; print a; } print a; prints 2 then 1.
C13_Scoping ==
    /\ (LastSource(SrcScope) /\ last.op = OP_GET_LOCAL) =>
          /\ last.event = "step"
          /\ TopNow = make_loxnumber(Rat(2, 1))
    /\ (LastSource(SrcScope) /\ last.op = OP_GET_GLOBAL) =>
          /\ last.event = "step"
          /\ last.name = <<"a">>
          /\ TopNow = make_loxnumber(Rat(1, 1))
    /\ (LastSource(SrcScopeLocal) /\ last.op = OP_GET_LOCAL) =>
          /\ last.event = "step"
          /\ TopNow = make_loxnumber(Rat(IF last.top = 2 THEN 2 ELSE 1, 1))
    /\ (LastSource(SrcScopePrint) /\ hist.calls = 1 /\ pc = "idle") =>
          /\ result = INTERPRET_OK
          /\ out = <<Rat(2, 1), "\n", Rat(1, 1), "\n">>

\* C14: no chunk that is run holds a reference that was resolved to a local of depth
\* -1: when compile resolves a name to such a local, it has reported an error (the
\* error "Can't read local variable in its own initializer." unless an earlier error
\* of the statement silenced it), compile returns false, interpret_vm returns
\* INTERPRET_COMPILE_ERROR and no instruction of the chunk is executed.
C14_UnreadyLocalNeverRead ==
    /\ pc = "run" => hist.unready = 0
    /\ hist.unready > 0 =>
          /\ pc = "idle"
          /\ last.event = "compile_error"
          /\ result = INTERPRET_COMPILE_ERROR
          /\ hist.reported > 0
          /\ \/ err[Len(err)].message = "Can't read local variable in its own initializer."
             \/ hist.reported = 1 /\ err[Len(err)].message = "Expected an expression."

\* { var a = a; } has been refused.
C14_Witness ==
    /\ LastSource(SrcOwnInitializer)
    /\ hist.unready = 1
    /\ last.event = "compile_error"
    /\ err[Len(err)].message = "Can't read local variable in its own initializer."

\* What declare_variable writes for a name the scope has already.
DuplicateMessage == "A variable with this name already exists in this scope."

\* C15: when a block declares a name that a local of the same scope depth has already,
\* compile reports an error and fails, and the chunk is not run; a declaration of a
\* name that only locals of enclosing scopes, or a global, have is not reported:
\* var a; var a; { var a; { var a; } } compiles and runs without error.
C15_DuplicateLocal ==
    /\ hist.duplicates > 0 =>
          /\ pc = "idle"
          /\ last.event = "compile_error"
          /\ result = INTERPRET_COMPILE_ERROR
          /\ hist.reported > 0
    /\ hist.duplicates = 0 => DuplicateMessage \notin hist.messages
    /\ LastSource(SrcShadow) =>
          /\ hist.reported = 0
          /\ pc = "idle" => result = INTERPRET_OK

\* { var a; var a; } has been refused for its second declaration.
C15_Witness ==
    /\ LastSource(SrcDuplicateLocal)
    /\ hist.duplicates = 1
    /\ hist.messages = {DuplicateMessage}
    /\ result = INTERPRET_COMPILE_ERROR

\* C16: the compiler reports each condition with the text the language gives it: an
\* expression that is missing with "Expected expression.", a variable name that is
\* missing with "Expected variable name.", a while without its '(' with
\* "Expected '(' after 'while'.", a second declaration of a local in its scope with
\* "Already a variable with this name in this scope.", and a local read in its own
\* initializer with "Can't read local variable in its own initializer.".
C16_CompileErrorMessages ==
    /\ LastSource(SrcMissingExpression) => hist.messages = {"Expected expression."}
    /\ LastSource(SrcMissingName) => hist.messages = {"Expected variable name."}
    /\ LastSource(SrcWhileNoParen) => hist.messages = {"Expected '(' after 'while'."}
    /\ LastSource(SrcDuplicateLocal) =>
          hist.messages = {"Already a variable with this name in this scope."}
    /\ LastSource(SrcOwnInitializer) =>
          hist.messages = {"Can't read local variable in its own initializer."}

\* C17: a source in which the compiler reported an error is not run: interpret_vm
\* returns INTERPRET_COMPILE_ERROR with the machine idle, no instruction of the
\* chunk is executed, nothing is printed, and the globals and the stack are as
\* the call found them.
C17_CompileErrorRunsNothing ==
    /\ hist.reported > 0 =>
          /\ pc = "idle"
          /\ result = INTERPRET_COMPILE_ERROR
          /\ last.event = "compile_error"
    /\ last.event = "compile_error" =>
          /\ hist.reported > 0
          /\ Len(out) = last.printed
          /\ GlobalsNow = last.globals
          /\ vm.stacktop = last.top
          /\ LiveStack = last.stack

\* A source with an error was interpreted after earlier lines had defined a global.
C17_Witness ==
    /\ last.event = "compile_error"
    /\ hist.calls >= 2
    /\ hist.reported > 0
    /\ \E n \in GlobalNames : last.globals[n].present

C19_LoopOrder ==
    /\ (LastSource(SrcForPrint) /\ hist.calls = 1 /\ pc = "idle") =>
          /\ result = INTERPRET_OK
          /\ out = <<Rat(0, 1), "\n", Rat(1, 1), "\n", Rat(2, 1), "\n">>
    /\ (LastSource(SrcWhilePrint) /\ hist.calls = 1 /\ pc = "idle") =>
          /\ result = INTERPRET_OK
          /\ out = <<Rat(0, 1), "\n", Rat(1, 1), "\n", Rat(2, 1), "\n">>

\* C20: the bytecode of an expression follows precedence and associates to the left:
\* 1 + 2 * 3 is emitted as 1, 2, 3, OP_MUL, OP_ADD and leaves 7; 3 - 2 - 1 is emitted
\* as 3, 2, OP_SUB, 1, OP_SUB and leaves 0; the unary minus of -1 - 2 is applied to 1
\* before the subtraction, which leaves -3.
C20_PrecedenceAndAssociativity ==
    /\ (LastSource(SrcPrecedence) /\ pc = "run") =>
          /\ vm.chunk.code = <<OP_CONSTANT, 0, OP_CONSTANT, 1, OP_CONSTANT, 2,
                               OP_MUL, OP_ADD, OP_POP, OP_RET>>
          /\ vm.chunk.constants.values = <<make_loxnumber(Rat(1, 1)), make_loxnumber(Rat(2, 1)),
                                           make_loxnumber(Rat(3, 1))>>
          /\ Fetch(OP_POP) => TopNow = make_loxnumber(Rat(7, 1))
    /\ (LastSource(SrcSubtract) /\ pc = "run") =>
          /\ vm.chunk.code = <<OP_CONSTANT, 0, OP_CONSTANT, 1, OP_SUB, OP_CONSTANT, 2,
                               OP_SUB, OP_POP, OP_RET>>
          /\ Fetch(OP_POP) => TopNow = make_loxnumber(Rat(0, 1))
    /\ (LastSource(SrcUnary) /\ pc = "run") =>
          /\ vm.chunk.code = <<OP_CONSTANT, 0, OP_UNM, OP_CONSTANT, 1, OP_SUB,
                               OP_POP, OP_RET>>
          /\ Fetch(OP_POP) => TopNow = make_loxnumber(Rat(-3, 1))

\* 1 + 2 * 3 has been evaluated and its value is about to be popped.
C20_Witness ==
    /\ LastSource(SrcPrecedence)
    /\ pc = "run"
    /\ last.op = OP_ADD
    /\ Fetch(OP_POP)
    /\ TopNow = make_loxnumber(Rat(7, 1))

\* The bytes of operand that follow the opcode op.
OperandBytes(op) ==
    CASE op \in {OP_JUMP, OP_JUMP_IF_FALSE, OP_LOOP} -> 2
      [] op \in {OP_CONSTANT, OP_DEFINE_GLOBAL, OP_GET_GLOBAL, OP_SET_GLOBAL,
                 OP_GET_LOCAL, OP_SET_LOCAL} -> 1
      [] OTHER -> 0

\* The offset 2^k instructions after the one at offset, or the end of code.
RECURSIVE InstructionsAfter(_, _, _)
InstructionsAfter(code, offset, k) ==
    IF offset >= Len(code) THEN offset
    ELSE IF k = 0 THEN offset + 1 + OperandBytes(code[offset + 1])
    ELSE InstructionsAfter(code, InstructionsAfter(code, offset, k - 1), k - 1)

\* The offsets at which the 2^k instructions from offset on start.
RECURSIVE StartsWithin(_, _, _)
StartsWithin(code, offset, k) ==
    IF offset >= Len(code) THEN {}
    ELSE IF k = 0 THEN {offset}
    ELSE StartsWithin(code, offset, k - 1)
            \cup StartsWithin(code, InstructionsAfter(code, offset, k - 1), k - 1)

\* The least k with 2^k >= n.
RECURSIVE Doublings(_)
Doublings(n) == IF n <= 1 THEN 0 ELSE 1 + Doublings((n + 1) \div 2)

\* The offsets of code, from offset on, at which an instruction starts.
InstructionStarts(code, offset) == StartsWithin(code, offset, Doublings(Len(code) + 1))

\* C21: the chunk a compilation leaves, whether it succeeded or not, has one line for
\* every byte of code, and the operand bytes of an instruction, those of a patched
\* jump included, carry the line of its opcode.
C21_OneLinePerByte ==
    /\ Len(hist.code) = Len(hist.lines)
    /\ pc = "run" => (vm.chunk.code = hist.code /\ vm.chunk.lines = hist.lines)
    /\ \A s \in InstructionStarts(hist.code, 0) :
          \A k \in 1..OperandBytes(hist.code[s + 1]) :
             /\ s + k < Len(hist.code)
             /\ hist.lines[s + k + 1] = hist.lines[s + 1]

\* A chunk whose code spans several lines, with a patched jump and a loop after
\* the first line.
C21_Witness ==
    /\ LastSource(SrcLines)
    /\ pc = "run"
    /\ Cardinality({hist.lines[k] : k \in 1..Len(hist.lines)}) >= 4
    /\ \E s \in InstructionStarts(hist.code, 0) :
          hist.code[s + 1] = OP_JUMP /\ hist.lines[s + 1] > 1
    /\ \E s \in InstructionStarts(hist.code, 0) :
          hist.code[s + 1] = OP_LOOP /\ hist.lines[s + 1] > 1

\* C24: table_add_all(dst, src) returns with every key that is live in src live in
\* dst with the value it has in src and every other key of dst as it was, and it
\* leaves src as it was.
C24_AddAllCopies ==
    last.op = "table_add_all" =>
        /\ pc = "idle"
        /\ tbl = last.src
        /\ \A k \in AllKeys, o \in TableValues :
              LET s == table_get(heap, last.src, k, o)
                  d == table_get(heap, last.dst, k, o)
                  r == table_get(heap, vm.globals, k, o)
              IN  IF s.ret = TRUE THEN r.ret = TRUE /\ SameValue(r.out, s.out)
                  ELSE r.ret = d.ret /\ SameValue(r.out, d.out)

\* The names the constants of the chunk compiled last stand for.
ConstantNames == [k \in 1..Len(hist.constants) |-> StringChars(heap, hist.constants[k].object)]

\* C26: an '=' after an expression that is not a variable parsed at assignment
\* precedence, as in a + b = c and a * b = c, is reported as "Invalid assignment
\* target." and fails the compilation; a = b compiles to the value of b followed by
\* the set of a, and a = b = c to c, the set of b and the set of a.
C26_AssignmentTargets ==
    /\ (LastSource(SrcBadTarget) \/ LastSource(SrcBadTargetFactor)) =>
          /\ hist.messages = {"Invalid assignment target."}
          /\ result = INTERPRET_COMPILE_ERROR
          /\ pc = "idle"
    /\ LastSource(SrcAssign) =>
          /\ hist.messages = {}
          /\ ConstantNames = <<<<"a">>, <<"b">>>>
          /\ hist.code = <<OP_GET_GLOBAL, 1, OP_SET_GLOBAL, 0, OP_POP, OP_RET>>
    /\ LastSource(SrcAssignChain) =>
          /\ hist.messages = {}
          /\ ConstantNames = <<<<"a">>, <<"b">>, <<"c">>>>
          /\ hist.code = <<OP_GET_GLOBAL, 2, OP_SET_GLOBAL, 1, OP_SET_GLOBAL, 0, OP_POP, OP_RET>>

\* a + b = c; has been refused.
C26_Witness ==
    /\ LastSource(SrcBadTarget)
    /\ last.event = "compile_error"
    /\ "Invalid assignment target." \in hist.messages
    /\ SubSeq(hist.code, 1, 5) = <<OP_GET_GLOBAL, 0, OP_GET_GLOBAL, 1, OP_ADD>>

\* The calls of error_at in the trace of the last compilation, and the index of the
\* last return of synchronize before event i, 0 if there is none.
ErrorEvents == {i \in 1..Len(hist.trace) : hist.trace[i].kind \in {"diagnostic", "suppressed"}}
SynchronizedBefore(i) ==
    LET s == {j \in 1..(i - 1) : hist.trace[j].kind = "synchronized"}
    IN  IF s = {} THEN 0 ELSE CHOOSE j \in s : \A k \in s : k <= j

StatementStarts == {"TOKEN_CLASS", "TOKEN_FUN", "TOKEN_VAR", "TOKEN_FOR", "TOKEN_IF",
                    "TOKEN_WHILE", "TOKEN_PRINT", "TOKEN_RETURN"}

\* C27: the first error after the start of the compilation or after a synchronize
\* writes one diagnostic and sets panicmode and haderror; no diagnostic is written
\* while panicmode is set; synchronize clears panicmode and returns at TOKEN_EOF, at
\* a token that starts a statement or just after a ';'; haderror once set stays set
\* and compile returns false exactly when it is set.
C27_PanicMode ==
    /\ \A i \in ErrorEvents :
          (\A j \in ErrorEvents : ~(SynchronizedBefore(i) < j /\ j < i)) =>
             /\ hist.trace[i].kind = "diagnostic"
             /\ hist.trace[i].panicmode
             /\ hist.trace[i].haderror
    /\ \A i \in ErrorEvents :
          hist.trace[i].kind = "diagnostic" <=> ~hist.trace[i].before
    /\ \A i \in 1..Len(hist.trace) :
          hist.trace[i].kind = "synchronized" =>
             /\ ~hist.trace[i].panicmode
             /\ \/ hist.trace[i].current = "TOKEN_EOF"
                \/ hist.trace[i].current \in StatementStarts
                \/ hist.trace[i].previous = "TOKEN_SEMICOLON"
    /\ \A i, j \in 1..Len(hist.trace) :
          (i < j /\ hist.trace[i].haderror) => hist.trace[j].haderror
    /\ last.event \in {"compile_error", "compiled"} =>
          (last.event = "compile_error" <=>
              \E i \in 1..Len(hist.trace) : hist.trace[i].haderror)

\* The statements at whose end the compiler's locals are all that the stack holds.
BoundaryKinds == NeutralKinds \cup {"var_local"}

\* The slot operand of the instruction at ip.
SlotOperand(ip) == hist.code[ip + 2]

\* C33: when OP_GET_LOCAL s or OP_SET_LOCAL s of a chunk that compiled without error is
\* about to execute, s is the slot of a local in scope, the stack is at least as high
\* as the locals in scope, and each stack slot of a local holds the value the local was
\* declared with or last assigned; OP_GET_LOCAL s pushes that value of local s and
\* OP_SET_LOCAL s leaves the others as they were; at the end of every statement the
\* stack is as high as the number of locals the compiler has in scope there.
C33_LocalsAreStackSlots ==
    /\ (Fetch(OP_GET_LOCAL) \/ Fetch(OP_SET_LOCAL)) =>
          /\ vm.chunk.code[vm.ip + 2] < Len(hist.shadow)
          /\ Len(hist.shadow) <= vm.stacktop
          /\ \A i \in 1..Len(hist.shadow) : vm.stack[i] = hist.shadow[i]
    /\ (last.op = OP_GET_LOCAL /\ last.event = "step") =>
          /\ vm.stacktop = last.top + 1
          /\ SlotOperand(last.ip) < last.top
          /\ TopNow = last.stack[SlotOperand(last.ip) + 1]
          /\ TopNow = hist.shadow[SlotOperand(last.ip) + 1]
    /\ (last.op = OP_SET_LOCAL /\ last.event = "step") =>
          /\ vm.stacktop = last.top
          /\ SlotOperand(last.ip) < last.top
          /\ vm.stack[SlotOperand(last.ip) + 1] = last.stack[last.top]
          /\ \A i \in 1..last.top : i # SlotOperand(last.ip) + 1 => vm.stack[i] = last.stack[i]
    /\ \A i \in 1..Len(last.closed) :
          last.closed[i].kind \in BoundaryKinds => last.closed[i].after = last.closed[i].locals

\* An OP_GET_LOCAL has read the second of two locals that hold different values, with
\* a temporary above them.
C33_Witness ==
    /\ last.op = OP_GET_LOCAL
    /\ last.event = "step"
    /\ SlotOperand(last.ip) >= 1
    /\ Len(hist.shadow) >= 2
    /\ last.top > Len(hist.shadow)
    /\ hist.shadow[1] # hist.shadow[2]

\* The objects of the list that starts at object, in order; turns bounds the walk.
RECURSIVE ObjectList(_, _, _)
ObjectList(h, object, turns) ==
    IF object = NULL \/ turns = 0 THEN <<>>
    ELSE <<object>> \o ObjectList(h, h[object].next, turns - 1)

ObjectsNow == ObjectList(heap, vm.objects, Len(heap) + 1)
ObjectSet == {ObjectsNow[i] : i \in 1..Len(ObjectsNow)}

\* The buffers the LoxString objects of the heap hold.
Buffers(h) == {h[s].buffer : s \in StringObjects(h)}

\* C35: from init_vm up to free_vm, every LoxString of the heap is in the list of
\* vm.objects exactly once, it and its buffer are allocated and were never freed, no
\* two strings share a buffer, and every key of vm.strings and of vm.globals and every
\* object on the stack is in the list; a buffer that no string holds has been freed
\* once.  After free_vm every block of the heap has been freed exactly once and both
\* tables have count 0 and capacity 0.
C35_ObjectsFreedOnce ==
    /\ pc \in {"idle", "run"} =>
          /\ Len(ObjectsNow) = Cardinality(ObjectSet)
          /\ ObjectSet = StringObjects(heap)
          /\ \A s \in StringObjects(heap) :
                /\ heap[s].live /\ heap[s].frees = 0
                /\ heap[heap[s].buffer].kind = "char[]"
                /\ heap[heap[s].buffer].live /\ heap[heap[s].buffer].frees = 0
                /\ \A t \in StringObjects(heap) : heap[t].buffer = heap[s].buffer => t = s
          /\ \A b \in 1..Len(heap) :
                (heap[b].kind = "char[]" /\ b \notin Buffers(heap)) =>
                    (~heap[b].live /\ heap[b].frees = 1)
          /\ LiveKeys(vm.strings) \subseteq ObjectSet
          /\ LiveKeys(vm.globals) \subseteq ObjectSet
          /\ \A i \in 1..vm.stacktop : is_loxobject(vm.stack[i]) => as_loxobject(vm.stack[i]) \in ObjectSet
    /\ pc = "freed" =>
          /\ \A b \in 1..Len(heap) : ~heap[b].live /\ heap[b].frees = 1
          /\ vm.globals.count = 0 /\ vm.globals.capacity = 0
          /\ vm.strings.count = 0 /\ vm.strings.capacity = 0

\* free_vm has freed a heap that held a global bound to a string, three strings or
\* more, and the buffer of a concatenation that take_string had freed.
C35_Witness ==
    /\ pc = "freed"
    /\ last.event = "free_vm"
    /\ \E n \in GlobalNames : last.globals[n].present /\ is_loxobject(last.globals[n].value)
    /\ Cardinality(StringObjects(heap)) >= 3
    /\ \E b \in 1..Len(heap) : heap[b].kind = "char[]" /\ b \notin Buffers(heap)

\* Falsiness as the language defines it: nil and the boolean false.
Falsy(value) == value.type = VAL_NIL \/ (value.type = VAL_BOOL /\ value.boolean = FALSE)

\* The two operand bytes of the instruction at ip of the chunk being run.
ShortOperand(ip) == (hist.code[ip + 2] * 256) + hist.code[ip + 3]

\* C36: OP_NOT replaces the value on top of the stack by the boolean true when that
\* value is nil or the boolean false and by false for every other value, numbers and
\* strings, 0 and the empty string included; OP_JUMP_IF_FALSE leaves the stack as it
\* is and moves ip past its operand, and by the operand further exactly when the value
\* on top is nil or false.
C36_Falsiness ==
    /\ (last.op = OP_NOT /\ last.event = "step") =>
          /\ vm.stacktop = last.top
          /\ TopNow = make_loxbool(Falsy(LastRhs))
          /\ SubSeq(vm.stack, 1, last.top - 1) = SubSeq(last.stack, 1, last.top - 1)
          /\ vm.ip = last.ip + 1
    /\ (last.op = OP_JUMP_IF_FALSE /\ last.event = "step") =>
          /\ vm.stacktop = last.top
          /\ LiveStack = last.stack
          /\ vm.ip = last.ip + 3 + (IF Falsy(LastRhs) THEN ShortOperand(last.ip) ELSE 0)
          /\ ShortOperand(last.ip) > 0

\* OP_NOT has turned the empty string into false.
C36_Witness ==
    /\ last.op = OP_NOT
    /\ last.event = "step"
    /\ is_loxobject(LastRhs)
    /\ StringChars(heap, as_loxobject(LastRhs)) = <<>>
    /\ TopNow = make_loxbool(FALSE)

(***************************************************************************)
(* The overflow specification: one interpret_vm call on a block that       *)
(* declares as many locals as the stack has slots and then evaluates one    *)
(* more value.                                                             *)
(***************************************************************************)
HexDigits == <<"0", "1", "2", "3", "4", "5", "6", "7", "8", "9", "a", "b", "c", "d", "e", "f">>

\* var xHL; where HL is n in hexadecimal
LocalDeclaration(n) ==
    <<"v", "a", "r", " ", "x", HexDigits[(n \div 16) + 1], HexDigits[(n % 16) + 1], ";">>

\* The declarations of the locals 0 .. n - 1, one after the other.
LocalDeclarations(n) ==
    [k \in 1..(n * Len(LocalDeclaration(0))) |->
        LocalDeclaration((k - 1) \div Len(LocalDeclaration(0)))[((k - 1) % Len(LocalDeclaration(0))) + 1]]

\* { var x00; var x01; ... var xff; nil; }
SrcOverflow == <<"{">> \o LocalDeclarations(STACK_MAX) \o <<"n", "i", "l", ";", "}">>

InterpretOverflow == InterpretSource(SrcOverflow, Len(Sources) + 1)

OverflowNext == InterpretOverflow \/ OpNil

SpecOverflow == VMInit /\ [][OverflowNext]_vars

\* C4: while a chunk that compile produced without error runs, the stack height is
\* at least 0 and at most STACK_MAX, and no push, pop or peek touches a slot outside
\* the stack array.
C4_StackWithinBounds ==
    /\ vm.stacktop >= 0
    /\ vm.stacktop <= STACK_MAX
    /\ last.event # "undefined"

(***************************************************************************)
(* The limits specification: one interpret_vm call on a source that has as  *)
(* many constants, or as many locals in scope, as one byte can index, or    *)
(* one more.                                                               *)
(***************************************************************************)
\* seq written n times over.
Repeat(seq, n) == [k \in 1..(n * Len(seq)) |-> seq[((k - 1) % Len(seq)) + 1]]

\* 1; written n times over.
SrcOnes(n) == Repeat(<<"1", ";">>, n)

\* { var x00; ... var xff; } and the same with var y; before the closing brace.
SrcLocalsFull == <<"{">> \o LocalDeclarations(UINT8_COUNT) \o <<"}">>
SrcLocalsOneMore ==
    <<"{">> \o LocalDeclarations(UINT8_COUNT) \o <<"v", "a", "r", " ", "y", ";", "}">>

LimitSources ==
    <<SrcOnes(UINT8_COUNT), SrcOnes(UINT8_COUNT + 1), SrcLocalsFull, SrcLocalsOneMore>>

InterpretLimit(k) ==
    /\ hist.calls = 0
    /\ InterpretSource(LimitSources[k], Len(Sources) + 1 + k)

LimitNext ==
    \/ \E k \in 1..Len(LimitSources) : InterpretLimit(k)
    \/ OpConstant \/ OpNil \/ OpPop \/ OpRet

SpecLimits == VMInit /\ [][LimitNext]_vars

\* The source of the call was LimitSources[k].
LastLimit(k) == hist.src = Len(Sources) + 1 + k

\* C22: "Too many constants in one chunk." is reported exactly when the chunk needs
\* more than 256 distinct constants, however often each is referenced, and every
\* constant operand in the code is a pool index from 0 to 255.
C22_ConstantLimit ==
    /\ ("Too many constants in one chunk." \in hist.messages) <=>
          Cardinality({hist.constants[k] : k \in 1..Len(hist.constants)}) > UINT8_COUNT
    /\ last.op = -1 =>
          \A s \in InstructionStarts(hist.code, 0) :
             hist.code[s + 1] \in {OP_CONSTANT, OP_DEFINE_GLOBAL, OP_GET_GLOBAL, OP_SET_GLOBAL} =>
                /\ hist.code[s + 2] \in 0..UINT8_MAX
                /\ hist.code[s + 2] < Len(hist.constants)

\* C23: the compiler never has fewer than 0 or more than 256 locals; a declaration made
\* while 256 locals are in scope reports "Too many local variables in function.",
\* adds no local and makes compile fail, and that error is not reported while at
\* most 256 locals are in scope at once.
C23_LocalLimit ==
    /\ hist.peak \in 0..UINT8_COUNT
    /\ LastLimit(3) =>
          /\ hist.peak = UINT8_COUNT
          /\ hist.messages = {}
          /\ result # INTERPRET_COMPILE_ERROR
    /\ LastLimit(4) =>
          /\ hist.peak = UINT8_COUNT
          /\ hist.messages = {"Too many local variables in function."}
          /\ hist.reported = 1
          /\ result = INTERPRET_COMPILE_ERROR
          /\ pc = "idle"
    /\ ("Too many local variables in function." \in hist.messages) => LastLimit(4)

\* The 257th declaration of a block has been refused.
C23_Witness ==
    /\ LastLimit(4)
    /\ hist.peak = UINT8_COUNT
    /\ "Too many local variables in function." \in hist.messages
    /\ result = INTERPRET_COMPILE_ERROR

(***************************************************************************)
(* The scanner specification: scanner_init on a source, then                *)
(* scanner_scan_token until it returns TOKEN_EOF.                           *)
(***************************************************************************)
\* The keywords of the language and the token type of each.
KeywordTable ==
    <<[text |-> <<"a", "n", "d">>, type |-> "TOKEN_AND"],
      [text |-> <<"c", "l", "a", "s", "s">>, type |-> "TOKEN_CLASS"],
      [text |-> <<"e", "l", "s", "e">>, type |-> "TOKEN_ELSE"],
      [text |-> <<"f", "a", "l", "s", "e">>, type |-> "TOKEN_FALSE"],
      [text |-> <<"f", "o", "r">>, type |-> "TOKEN_FOR"],
      [text |-> <<"f", "u", "n">>, type |-> "TOKEN_FUN"],
      [text |-> <<"i", "f">>, type |-> "TOKEN_IF"],
      [text |-> <<"n", "i", "l">>, type |-> "TOKEN_NIL"],
      [text |-> <<"o", "r">>, type |-> "TOKEN_OR"],
      [text |-> <<"p", "r", "i", "n", "t">>, type |-> "TOKEN_PRINT"],
      [text |-> <<"r", "e", "t", "u", "r", "n">>, type |-> "TOKEN_RETURN"],
      [text |-> <<"s", "u", "p", "e", "r">>, type |-> "TOKEN_SUPER"],
      [text |-> <<"t", "h", "i", "s">>, type |-> "TOKEN_THIS"],
      [text |-> <<"t", "r", "u", "e">>, type |-> "TOKEN_TRUE"],
      [text |-> <<"v", "a", "r">>, type |-> "TOKEN_VAR"],
      [text |-> <<"w", "h", "i", "l", "e">>, type |-> "TOKEN_WHILE"]>>

Keywords == {KeywordTable[k] : k \in 1..Len(KeywordTable)}

\* Each keyword, each keyword without its last character or with one character
\* more, and words that start like a keyword.
ScanLexemes ==
    {w.text : w \in Keywords}
        \cup {SubSeq(w.text, 1, Len(w.text) - 1) : w \in Keywords}
        \cup {w.text \o <<c>> : w \in Keywords, c \in {"s", "_", "1"}}
        \cup {<<"f">>, <<"t">>, <<"f", "f">>, <<"f", "x">>, <<"t", "a", "r">>, <<"t", "o">>,
              <<"x">>, <<"_">>, <<"p", "r", "i", "n", "t", "e", "r">>}

MaxChars == 4

\* Blanks, line ends, slashes and a letter, in every order.
BlankSources ==
    UNION {[1..n -> {" ", "\t", "\r", "\n", "/", "x"}] : n \in 1..MaxChars}

\* A lexeme alone, and in parentheses after a blank.
ScanSources ==
    ScanLexemes \cup {<<" ", "(">> \o w \o <<")">> : w \in ScanLexemes} \cup BlankSources

ScanInit ==
    /\ vm = init_vm
    /\ heap = <<>>
    /\ out = <<>>
    /\ err = <<>>
    /\ pc = "scan"
    /\ result = "none"
    /\ hist = <<>>
    /\ tbl = init_table
    /\ amap = <<>>
    /\ \E source \in ScanSources :
          last = [op |-> "scanner_init", sc |-> scanner_init(source), token |-> zero_token,
                  before |-> scanner_init(source)]

ScanToken ==
    LET r == scanner_scan_token(last.sc)
    IN  /\ pc = "scan"
        /\ last' = [op |-> "scanner_scan_token", sc |-> r.sc, token |-> r.token,
                    before |-> last.sc]
        /\ pc' = IF r.token.type = "TOKEN_EOF" THEN "scanned" ELSE "scan"
        /\ UNCHANGED <<vm, heap, out, err, result, hist, tbl, amap>>

ScanNext == ScanToken

SpecScan == ScanInit /\ [][ScanNext]_vars

\* The characters of the token scanner_scan_token returned last.
LastLexeme == SubSeq(last.sc.source, last.token.start + 1, last.token.start + last.token.length)

\* The token starts with a letter or an underscore.
IdentifierShaped ==
    /\ last.op = "scanner_scan_token"
    /\ last.token.type \notin {"TOKEN_ERROR", "TOKEN_EOF"}
    /\ last.token.length > 0
    /\ isalpha(LastLexeme[1]) \/ LastLexeme[1] = "_"

\* C25: a lexeme that starts like an identifier gets the token type of keyword K exactly
\* when it is spelled as K, each of the sixteen keywords having its own type, and
\* TOKEN_IDENTIFIER otherwise, words in f and t whose second character starts no
\* keyword included.
C25_Keywords ==
    IdentifierShaped =>
        /\ \A w \in Keywords : (last.token.type = w.type) <=> (LastLexeme = w.text)
        /\ (\A w \in Keywords : LastLexeme # w.text) => last.token.type = "TOKEN_IDENTIFIER"

\* The offset of the first character from offset on that is no blank, no line
\* end and not in a comment that runs from // to the end of its line.
RECURSIVE TokenStart(_, _, _)
TokenStart(source, offset, comment) ==
    LET c == CharAt(source, offset)
    IN  IF c = NUL THEN offset
        ELSE IF comment
        THEN TokenStart(source, offset + 1, c # "\n")
        ELSE IF c \in {" ", "\t", "\r", "\n"} THEN TokenStart(source, offset + 1, FALSE)
        ELSE IF c = "/" /\ CharAt(source, offset + 1) = "/"
        THEN TokenStart(source, offset + 2, TRUE)
        ELSE offset

Newlines(source, from, to) ==
    Cardinality({i \in from..(to - 1) : CharAt(source, i) = "\n"})

\* C39: scanner_scan_token starts its token at the first character after the
\* blanks, line ends and // comments that follow the token before, counts one
\* line for each line end it skipped, and makes no error token of a blank or a
\* line end.
C39_SkipWhitespace ==
    last.op = "scanner_scan_token" =>
        LET sc == last.before
            start == TokenStart(sc.source, sc.current, FALSE)
        IN  /\ last.sc.start = start
            /\ last.sc.line = sc.line + Newlines(sc.source, sc.current, start)
            /\ last.token.type \notin {"TOKEN_ERROR", "TOKEN_EOF"} =>
                  last.token.start = start
            /\ last.token.type = "TOKEN_ERROR" =>
                  CharAt(sc.source, last.sc.start) \notin {" ", "\t", "\r", "\n"}

\* Without a line end in what is left of the source the token starts where C39
\* says.
C39_WithoutNewline ==
    (last.op = "scanner_scan_token"
     /\ \A i \in last.before.current..Len(last.before.source) :
           CharAt(last.before.source, i) # "\n")
        => C39_SkipWhitespace

(***************************************************************************)
(* The jump specification: the compiler emits a forward jump, a body and    *)
(* the patch of the jump, or marks the start of a loop and emits a body and *)
(* the OP_LOOP back to it; the vm then executes the jump instruction of a   *)
(* chunk that compiled without error.                                       *)
(***************************************************************************)
SmallBody == 20

\* The lengths of body: short ones, those around one byte and around two bytes.
BodySizes ==
    (0..SmallBody) \cup ((UINT8_MAX - 2)..(UINT8_MAX + 2)) \cup ((UINT16_MAX - 4)..(UINT16_MAX + 2))

JumpInit ==
    /\ vm = init_vm
    /\ heap = <<>>
    /\ out = <<>>
    /\ err = <<>>
    /\ pc = "start"
    /\ result = "none"
    /\ tbl = init_table
    /\ amap = [n \in GlobalNames |-> Absent]
    /\ last = [op |-> -1, event |-> "init_vm", ip |-> 0, line |-> 0, top |-> 0, stack |-> <<>>,
               errtop |-> -1, name |-> <<>>, bound |-> Absent,
               globals |-> [n \in GlobalNames |-> Absent], src |-> 0, closed |-> <<>>,
               printed |-> 0]
    /\ \E before \in {0, 2} :
          hist = [src |-> 0, stmts |-> <<>>, frames |-> <<>>, errors |-> 0, errtop |-> 0,
                  failed |-> {}, shadow |-> <<>>,
                  p |-> emit_body(new_parser(Mem(init_vm, <<>>), <<>>, init_chunk), OP_NIL, before),
                  kind |-> "none", offset |-> 0, target |-> 0, loopstart |-> 0, body |-> 0]

\* emit_jump(instruction), as if_statement, while_statement, and_ and or_ call it.
EmitJump(instruction) ==
    /\ pc = "start"
    /\ pc' = "emitted"
    /\ hist' = [hist EXCEPT !.p = emit_jump(@, instruction), !.kind = "jump",
                            !.offset = emit_jump(hist.p, instruction).ret]
    /\ UNCHANGED <<vm, heap, out, err, result, tbl, amap, last>>

\* int loopstart = current_chunk()->count;
MarkLoop ==
    /\ pc = "start"
    /\ pc' = "emitted"
    /\ hist' = [hist EXCEPT !.kind = "loop", !.loopstart = Len(hist.p.chunk.code)]
    /\ UNCHANGED <<vm, heap, out, err, result, tbl, amap, last>>

\* The code between the jump and its target, or of the body of the loop.
EmitBody(n) ==
    /\ pc = "emitted"
    /\ pc' = "body"
    /\ hist' = [hist EXCEPT !.p = emit_body(@, OP_NIL, n), !.body = n]
    /\ UNCHANGED <<vm, heap, out, err, result, tbl, amap, last>>

\* patch_jump(offset); target is history, the length of the code at that moment.
PatchJump ==
    /\ pc = "body"
    /\ hist.kind = "jump"
    /\ pc' = "patched"
    /\ hist' = [hist EXCEPT !.p = patch_jump(@, hist.offset), !.target = Len(hist.p.chunk.code)]
    /\ UNCHANGED <<vm, heap, out, err, result, tbl, amap, last>>

\* emit_loop(loopstart); offset is history, the place of the operand of OP_LOOP.
EmitLoop ==
    /\ pc = "body"
    /\ hist.kind = "loop"
    /\ pc' = "patched"
    /\ hist' = [hist EXCEPT !.p = emit_loop(@, hist.loopstart),
                            !.offset = Len(hist.p.chunk.code) + 1,
                            !.target = hist.loopstart]
    /\ UNCHANGED <<vm, heap, out, err, result, tbl, amap, last>>

\* compile returned true and run_vm has come to the jump instruction with nil, the
\* value of the condition, on the stack.
ReachJump ==
    /\ pc = "patched"
    /\ ~hist.p.haderror
    /\ pc' = "run"
    /\ vm' = [vm EXCEPT !.chunk = end_compiler(hist.p).chunk, !.ip = hist.offset - 1,
                        !.stack = <<make_loxnil>>, !.stacktop = 1]
    /\ UNCHANGED <<heap, out, err, result, tbl, amap, last, hist>>

JumpNext ==
    \/ \E instruction \in {OP_JUMP, OP_JUMP_IF_FALSE} : EmitJump(instruction)
    \/ MarkLoop
    \/ \E n \in BodySizes : EmitBody(n)
    \/ PatchJump
    \/ EmitLoop
    \/ ReachJump
    \/ OpJump \/ OpJumpIfFalse \/ OpLoop

SpecJump == JumpInit /\ [][JumpNext]_vars

\* The two bytes at the operand of the jump or loop instruction, read as read_short
\* reads them.
OperandNow == (hist.p.chunk.code[hist.offset + 1] * 256) + hist.p.chunk.code[hist.offset + 2]

\* C28: a forward jump patched over a distance d of at most 65535 holds d in its two
\* operand bytes, high byte first; read_short decodes d and the jump taken leaves ip
\* at the length the code had when the jump was patched.  A longer distance is
\* reported as "Too much code to jump over.", so that no chunk that runs holds a
\* truncated operand or the placeholder of a jump that was not patched.
C28_ForwardJumps ==
    /\ (pc = "patched" /\ hist.kind = "jump") =>
          IF hist.body <= UINT16_MAX
          THEN /\ ~hist.p.haderror
               /\ hist.p.chunk.code[hist.offset + 1] = hist.body \div 256
               /\ hist.p.chunk.code[hist.offset + 2] = hist.body % 256
               /\ hist.target = hist.offset + 2 + hist.body
          ELSE /\ hist.p.haderror
               /\ hist.p.err[Len(hist.p.err)].message = "Too much code to jump over."
    /\ (pc = "run" /\ hist.kind = "jump") =>
          /\ OperandNow = hist.target - (hist.offset + 2)
          /\ vm.chunk.code[hist.target + 1] = OP_RET
    /\ (last.op \in {OP_JUMP, OP_JUMP_IF_FALSE} /\ last.event = "step") =>
          /\ last.ip = hist.offset - 1
          /\ vm.ip = hist.target
          /\ vm.ip - (last.ip + 3) = hist.body

\* A jump over 256 bytes, the least distance that needs the high byte, has been taken.
C28_Witness ==
    /\ hist.kind = "jump"
    /\ last.op = OP_JUMP_IF_FALSE
    /\ last.event = "step"
    /\ hist.body = UINT8_MAX + 1
    /\ last.ip + 3 + hist.body = vm.ip
    /\ vm.ip = hist.target

\* C29: OP_LOOP as emit_loop(loopstart) wrote it takes ip back to loopstart: its
\* operand is the distance from the byte after the operand to loopstart, and a
\* distance above 65535 is reported as "Loop body too large.".
C29_Loops ==
    /\ (pc = "patched" /\ hist.kind = "loop") =>
          /\ hist.p.chunk.code[hist.offset] = OP_LOOP
          /\ IF hist.offset + 2 - hist.loopstart <= UINT16_MAX
             THEN /\ ~hist.p.haderror
                  /\ OperandNow = hist.offset + 2 - hist.loopstart
             ELSE /\ hist.p.haderror
                  /\ hist.p.err[Len(hist.p.err)].message = "Loop body too large."
    /\ (last.op = OP_LOOP /\ last.event = "step") =>
          /\ last.ip = hist.offset - 1
          /\ vm.ip = hist.loopstart

\* A loop of 256 bytes, its instruction included, has jumped back to its start.
C29_Witness ==
    /\ hist.kind = "loop"
    /\ last.op = OP_LOOP
    /\ last.event = "step"
    /\ hist.offset + 2 - hist.loopstart = UINT8_MAX + 1
    /\ hist.loopstart = 2
    /\ vm.ip = hist.loopstart

(***************************************************************************)
(* The compile specification: compile(source, &chunk) right after init_vm  *)
(* on every source of at most MaxTokens lexemes, well formed or not.        *)
(***************************************************************************)
MaxTokens == 3

CompileLexemes ==
    {<<"{">>, <<"}">>, <<";">>, <<"v", "a", "r", " ">>, <<"a">>, <<"+">>, <<")">>,
     <<"@">>, <<"\n">>, <<"(">>, <<"=">>, <<"1">>, <<"i", "f", " ">>,
     <<"f", "o", "r", " ">>, <<"w", "h", "i", "l", "e", " ">>, <<"\"">>}

RECURSIVE Concatenation(_)
Concatenation(lexemes) ==
    IF lexemes = <<>> THEN <<>> ELSE Head(lexemes) \o Concatenation(Tail(lexemes))

\* One lexeme for every kind of token scan_token makes.
OperatorLexemes ==
    {<<"(">>, <<")">>, <<"{">>, <<"}">>, <<",">>, <<".">>, <<";">>, <<"-">>, <<"+">>,
     <<"/">>, <<"*">>, <<"!">>, <<"!", "=">>, <<"=">>, <<"=", "=">>, <<">">>,
     <<">", "=">>, <<"<">>, <<"<", "=">>, <<"a">>, <<"\"", "s", "\"">>, <<"1">>,
     <<"a", "n", "d">>, <<"c", "l", "a", "s", "s">>, <<"e", "l", "s", "e">>,
     <<"f", "a", "l", "s", "e">>, <<"f", "o", "r">>, <<"f", "u", "n">>, <<"i", "f">>,
     <<"n", "i", "l">>, <<"o", "r">>, <<"p", "r", "i", "n", "t">>,
     <<"r", "e", "t", "u", "r", "n">>, <<"s", "u", "p", "e", "r">>,
     <<"t", "h", "i", "s">>, <<"t", "r", "u", "e">>, <<"v", "a", "r">>,
     <<"w", "h", "i", "l", "e">>, <<"@">>}

\* Every lexeme where an expression starts, and where an operator is looked for.
OperatorSources ==
    {lexeme \o <<" ", "1", ";">> : lexeme \in OperatorLexemes}
    \cup {<<"1", " ">> \o lexeme \o <<" ", "1", ";">> : lexeme \in OperatorLexemes}

CompileSources ==
    {Concatenation(lexemes) : lexemes \in UNION {[1..n -> CompileLexemes] : n \in 0..MaxTokens}}
    \cup OperatorSources

CompileInit ==
    /\ vm = init_vm
    /\ heap = <<>>
    /\ out = <<>>
    /\ err = <<>>
    /\ pc = "source"
    /\ result = "none"
    /\ tbl = init_table
    /\ amap = <<>>
    /\ last = NoCall
    /\ \E source \in CompileSources : hist = [source |-> source]

\* compile(source, &chunk), as interpret_vm calls it.
Compile ==
    /\ pc = "source"
    /\ pc' = "compiled"
    /\ last' = [op |-> "compile",
                p |-> Call("compile", <<Mem(vm, heap), hist.source, init_chunk>>)]
    /\ UNCHANGED <<vm, heap, out, err, result, tbl, amap, hist>>

CompileNext == Compile

SpecCompile == CompileInit /\ [][CompileNext]_vars

\* The tokens of a source that are not TOKEN_EOF, error tokens included: what
\* scanner_scan_token returns, call after call, up to the first TOKEN_EOF.
RECURSIVE TokensFrom(_)
TokensFrom(sc) ==
    LET r == scanner_scan_token(sc)
    IN  IF r.token.type = "TOKEN_EOF" THEN 0 ELSE 1 + TokensFrom(r.sc)

\* The events of declaration and of the loop of synchronize in the trace.
TurnEvents == {i \in 1..Len(last.p.trace) : last.p.trace[i].kind \in {"declared", "skipped"}}

\* C38: compile returns for every source: every declaration() and every turn of the
\* loop of synchronize leaves less of the source than it found, counting the current
\* token unless it is TOKEN_EOF, so that there are no more of them than tokens;
\* synchronize returns at TOKEN_EOF, after a ';' or before a token that starts a
\* statement; compile returns with TOKEN_EOF as the previous token, and
\* the scanner, once it has returned TOKEN_EOF, returns it again and stays where it is.
C38_CompileTerminates ==
    pc = "compiled" =>
        /\ ~last.p.crashed
        /\ last.p.ret \in BOOLEAN
        /\ \A i \in TurnEvents :
              /\ last.p.trace[i].remaining < last.p.trace[i].before
              /\ last.p.trace[i].remaining >= 0
        /\ Cardinality(TurnEvents) <= TokensFrom(scanner_init(hist.source))
        /\ \A i \in 1..Len(last.p.trace) :
              last.p.trace[i].kind = "synchronized" =>
                  \/ last.p.trace[i].current = "TOKEN_EOF"
                  \/ last.p.trace[i].previous = "TOKEN_SEMICOLON"
                  \/ last.p.trace[i].current \in StatementStarts
        /\ \A i, j \in 1..Len(last.p.trace) :
              (i < j /\ last.p.trace[i].current = "TOKEN_EOF") =>
                  last.p.trace[j].current = "TOKEN_EOF"
        /\ last.p.previous.type = "TOKEN_EOF"
        /\ last.p.current.type = "TOKEN_EOF"
        /\ LET again == scanner_scan_token(last.p.scanner)
           IN  /\ again.token.type = "TOKEN_EOF"
               /\ again.sc.current = last.p.scanner.current
               /\ scanner_scan_token(again.sc).token.type = "TOKEN_EOF"

\* compile has returned from a source of three tokens of which synchronize skipped
\* one, after a declaration inside a block.
C38_Witness ==
    /\ pc = "compiled"
    /\ TokensFrom(scanner_init(hist.source)) = MaxTokens
    /\ \E i \in TurnEvents : last.p.trace[i].kind = "skipped"
    /\ \E i \in TurnEvents : last.p.trace[i].kind = "declared" /\ last.p.trace[i].current = "TOKEN_RIGHT_BRACE"

TokenTypes ==
    {"TOKEN_LEFT_PAREN", "TOKEN_RIGHT_PAREN", "TOKEN_LEFT_BRACE", "TOKEN_RIGHT_BRACE",
     "TOKEN_COMMA", "TOKEN_DOT", "TOKEN_SEMICOLON", "TOKEN_MINUS", "TOKEN_PLUS",
     "TOKEN_SLASH", "TOKEN_STAR", "TOKEN_BANG", "TOKEN_BANG_EQUAL", "TOKEN_EQUAL",
     "TOKEN_EQUAL_EQUAL", "TOKEN_GREATER", "TOKEN_GREATER_EQUAL", "TOKEN_LESS",
     "TOKEN_LESS_EQUAL", "TOKEN_IDENTIFIER", "TOKEN_STRING", "TOKEN_NUMBER", "TOKEN_AND",
     "TOKEN_CLASS", "TOKEN_ELSE", "TOKEN_FALSE", "TOKEN_FOR", "TOKEN_FUN", "TOKEN_IF",
     "TOKEN_NIL", "TOKEN_OR", "TOKEN_PRINT", "TOKEN_RETURN", "TOKEN_SUPER", "TOKEN_THIS",
     "TOKEN_TRUE", "TOKEN_VAR", "TOKEN_WHILE", "TOKEN_ERROR", "TOKEN_EOF"}

HandlerEvents(kind) == {i \in 1..Len(last.p.trace) : last.p.trace[i].kind = kind}

\* C40: every token whose rule has a precedence above PREC_NONE has an infix
\* rule; parse_precedence is only entered with a precedence of PREC_ASSIGNMENT or
\* more, so the infix rule it calls is never NULL and belongs to a token above
\* PREC_NONE; a prefix rule it calls is never NULL; and for a token without a
\* prefix rule it reports "Expected an expression." (or suppresses the report in
\* panic mode) and returns with no rule called.
C40_InfixHandlers ==
    /\ \A type \in TokenTypes :
          get_rule(type).precedence > PREC_NONE => get_rule(type).infix # "NULL"
    /\ pc = "compiled" =>
          LET trace == last.p.trace
          IN  /\ ~last.p.crashed
              /\ \A i \in HandlerEvents("parse_precedence") :
                    trace[i].before >= PREC_ASSIGNMENT
              /\ \A i \in HandlerEvents("infix") :
                    /\ get_rule(trace[i].before).infix # "NULL"
                    /\ get_rule(trace[i].before).precedence > PREC_NONE
              /\ \A i \in HandlerEvents("prefix") :
                    get_rule(trace[i].before).prefix # "NULL"
              /\ \A i \in HandlerEvents("no_prefix") :
                    /\ get_rule(trace[i].before).prefix = "NULL"
                    /\ i > 2
                    /\ trace[i - 2].kind = "parse_precedence"
                    /\ trace[i - 1].kind \in {"diagnostic", "suppressed"}
                    /\ trace[i - 1].kind = "diagnostic" =>
                          \E k \in 1..Len(last.p.err) :
                              last.p.err[k].message = "Expected an expression."

C40_Witness ==
    /\ pc = "compiled"
    /\ hist.source = <<"1", "+", ")">>
    /\ \E i \in HandlerEvents("infix") : last.p.trace[i].before = "TOKEN_PLUS"
    /\ \E i \in HandlerEvents("no_prefix") :
          /\ last.p.trace[i].before = "TOKEN_RIGHT_PAREN"
          /\ last.p.trace[i - 1].kind = "diagnostic"

====
